---- MODULE Spec2Model ----
(***************************************************************************)
(* Turn/round/match state machine and ready-check sequencer of the         *)
(* New Avalon: Skirmish server (server/handlers/phaseManagement.ts and     *)
(* server/handlers/readyCheck.ts).  One existing game session is modelled: *)
(* gameState is the session's GameState object, reply is the message last  *)
(* handled (its type and payload) together with the ERROR text sent back   *)
(* on the socket ("" when the handler sent nothing back).                  *)
(***************************************************************************)
EXTENDS Integers, Sequences, FiniteSets, TLC

VARIABLES gameState, reply

vars == <<gameState, reply>>

(***************************************************************************)
(* Bounds of the model.                                                    *)
(***************************************************************************)
\* Largest round number startNextRound may count up to.
MaxRound == 2
\* Number of cards in each player's deck when the session is created.
MaxDeck == 1

(***************************************************************************)
(* JavaScript values that reach the handlers in message payloads or sit in *)
(* GameState fields that may hold null / undefined.                        *)
(***************************************************************************)
Num(n) == [t |-> "number", v |-> n]
\* a number with a fractional part (v + 0.5)
Frac(n) == [t |-> "fraction", v |-> n]
\* a string holding the decimal digits of n
NumStr(n) == [t |-> "digits", v |-> n]
\* a string that is not a numeral
Text == [t |-> "text", v |-> 0]
Bool(b) == [t |-> "boolean", v |-> IF b THEN 1 ELSE 0]
Null == [t |-> "null", v |-> 0]
Undefined == [t |-> "undefined", v |-> 0]

\* typeof x === 'boolean'
IsBoolean(x) == x.t = "boolean"

\* !x for the payload values above (0, "", null, undefined, false are falsy)
IsFalsy(x) ==
  \/ x.t \in {"null", "undefined"}
  \/ x.t \in {"number", "boolean"} /\ x.v = 0

\* Number(x): int says whether the result passes Number.isInteger
Number(x) ==
  CASE x.t = "number"    -> [int |-> TRUE, v |-> x.v]
    [] x.t = "digits"    -> [int |-> TRUE, v |-> x.v]
    [] x.t = "boolean"   -> [int |-> TRUE, v |-> x.v]
    [] x.t = "null"      -> [int |-> TRUE, v |-> 0]
    [] x.t = "fraction"  -> [int |-> FALSE, v |-> x.v]
    [] OTHER             -> [int |-> FALSE, v |-> 0]

\* a % n of JavaScript for n > 0: the result takes the sign of a
JsRemainder(a, n) == IF a >= 0 THEN a % n ELSE -((-a) % n)

(***************************************************************************)
(* Players.  gameState.players is an array; ids are 1..Len(players).       *)
(***************************************************************************)
PlayerIndex(players) == 1..Len(players)

\* players.find(p => p.id === id): the index of the first match, 0 if none
FindPlayer(players, id) ==
  LET hits == {i \in PlayerIndex(players) : Num(players[i].id) = id}
  IN IF hits = {} THEN 0 ELSE CHOOSE i \in hits : \A j \in hits : i <= j

\* Math.max(...players.map(p => p.score || 0))
MaxScoreOf(players) ==
  LET s == {IF players[i].score = 0 THEN 0 ELSE players[i].score :
              i \in PlayerIndex(players)}
  IN CHOOSE m \in s : \A x \in s : x <= m

(***************************************************************************)
(* Round end (phaseManagement.ts).                                         *)
(***************************************************************************)
getRoundVictoryThreshold(round) == 10 + (round * 10)

\* Fault variant of checkRoundEnd: the threshold must be exceeded (> for >=)
checkRoundEnd_StrictThreshold(gs, isDeselectCheck) ==
  /\ gs.isGameStarted
  /\ ~gs.isRoundEndModalOpen
  /\ gs.currentPhase = 0
  /\ (isDeselectCheck \/ gs.activePlayerId = gs.startingPlayerId)
  /\ MaxScoreOf(gs.players) > getRoundVictoryThreshold(gs.currentRound)

\* Fault variant of checkRoundEnd: the open round-end modal is not looked at
checkRoundEnd_ModalIgnored(gs, isDeselectCheck) ==
  /\ gs.isGameStarted
  /\ gs.currentPhase = 0
  /\ (isDeselectCheck \/ gs.activePlayerId = gs.startingPlayerId)
  /\ MaxScoreOf(gs.players) >= getRoundVictoryThreshold(gs.currentRound)

\* checkRoundEnd(gameState, isDeselectCheck): the early returns in order
checkRoundEnd(gs, isDeselectCheck) ==
  LET threshold == getRoundVictoryThreshold(gs.currentRound)
      maxScore  == MaxScoreOf(gs.players)
  IN IF ~gs.isGameStarted THEN FALSE
     ELSE IF gs.isRoundEndModalOpen THEN FALSE
     ELSE IF gs.currentPhase # 0 THEN FALSE
     ELSE IF ~isDeselectCheck /\ gs.activePlayerId # gs.startingPlayerId THEN FALSE
     ELSE IF maxScore >= threshold THEN TRUE
     ELSE FALSE

\* Fault variant of RoundWinnersOf: find() for filter(), one winner only
RoundWinnersOf_FirstOnly(players) ==
  LET maxScore == MaxScoreOf(players)
      first == CHOOSE i \in PlayerIndex(players) :
                 /\ players[i].score = maxScore
                 /\ \A j \in 1..(i - 1) : players[j].score # maxScore
  IN <<players[first].id>>

\* players.filter(p => p.score === maxScore).map(p => p.id)
RoundWinnersOf(players) ==
  LET maxScore == MaxScoreOf(players)
      IsTop(p) == p.score = maxScore
      top == SelectSeq(players, IsTop)
  IN [i \in 1..Len(top) |-> top[i].id]

\* gameState.roundWinners[round] = winners
RecordRound(roundWinners, round, winners) ==
  [r \in DOMAIN roundWinners \cup {round} |->
     IF r = round THEN winners ELSE roundWinners[r]]

\* totalWins[id]: number of recorded rounds whose winner list holds id
TotalWins(roundWinners, id) ==
  Cardinality({r \in DOMAIN roundWinners :
                 \E i \in 1..Len(roundWinners[r]) : roundWinners[r][i] = id})

\* The keys of totalWins: every id that occurs in a recorded winner list
TotalWinsKeys(roundWinners) ==
  UNION {{roundWinners[r][i] : i \in 1..Len(roundWinners[r])} :
           r \in DOMAIN roundWinners}

\* Fault variant of GameWinnerAfter: one round win is enough (>= 1 for >= 2)
GameWinnerAfter_OneWin(roundWinners, gameWinner) ==
  LET ids == {id \in TotalWinsKeys(roundWinners) :
                TotalWins(roundWinners, id) >= 1}
  IN IF ids = {} THEN gameWinner
     ELSE Num(CHOOSE id \in ids : \A other \in ids : id <= other)

\* The loop over Object.entries(totalWins), whose integer keys come in
\* ascending order: the first key with winCount >= 2 becomes gameWinner (then
\* break); without one gameWinner is left as it is.
GameWinnerAfter(roundWinners, gameWinner) ==
  LET ids == {id \in TotalWinsKeys(roundWinners) :
                TotalWins(roundWinners, id) >= 2}
  IN IF ids = {} THEN gameWinner
     ELSE Num(CHOOSE id \in ids : \A other \in ids : id <= other)

\* Fault variant of endRound: the roundEndTriggered marker is not set
endRound_NoMarker(gs) ==
  LET roundWinners == RoundWinnersOf(gs.players)
      recorded == RecordRound(gs.roundWinners, gs.currentRound, roundWinners)
  IN [gs EXCEPT !.roundWinners = recorded,
                !.gameWinner = GameWinnerAfter(recorded, gs.gameWinner),
                !.isRoundEndModalOpen = TRUE]

\* endRound(gameState)
endRound(gs) ==
  LET roundWinners == RoundWinnersOf(gs.players)
      recorded == RecordRound(gs.roundWinners, gs.currentRound, roundWinners)
  IN [gs EXCEPT !.roundWinners = recorded,
                !.gameWinner = GameWinnerAfter(recorded, gs.gameWinner),
                !.roundEndTriggered = TRUE,
                !.isRoundEndModalOpen = TRUE]

(***************************************************************************)
(* Draw phase (phaseManagement.ts).                                        *)
(***************************************************************************)
\* shouldDraw of performDrawPhase: a dummy follows the host (player id 1),
\* a real player draws unless autoDrawEnabled is explicitly false
DrawPhaseShouldDraw(players, i) ==
  IF players[i].isDummy
  THEN LET host == FindPlayer(players, Num(1))
       IN host # 0 /\ players[host].autoDrawEnabled = Bool(TRUE)
  ELSE players[i].autoDrawEnabled # Bool(FALSE)

\* Fault variant of DrawOne: the card is copied, the deck keeps it
DrawOne_KeepsDeck(player) ==
  [player EXCEPT !.hand = Append(player.hand, Head(player.deck))]

\* Fault variant of DrawOne: the card at the end of the deck is drawn
DrawOne_FromBack(player) ==
  [player EXCEPT !.deck = SubSeq(player.deck, 1, Len(player.deck) - 1),
                 !.hand = Append(player.hand, player.deck[Len(player.deck)])]

\* deck.splice(0, 1); hand.push(cardToDraw)
DrawOne(player) ==
  [player EXCEPT !.deck = Tail(player.deck),
                 !.hand = Append(player.hand, Head(player.deck))]

\* performDrawPhase(gameState)
performDrawPhase(gs) ==
  LET i == FindPlayer(gs.players, gs.activePlayerId)
  IN IF gs.activePlayerId = Null THEN [gs EXCEPT !.currentPhase = 0]
     ELSE IF i = 0 THEN [gs EXCEPT !.currentPhase = 0]
     ELSE IF Len(gs.players[i].deck) = 0 THEN [gs EXCEPT !.currentPhase = 0]
     ELSE LET drawn == IF DrawPhaseShouldDraw(gs.players, i)
                       THEN [gs EXCEPT !.players[i] = DrawOne(gs.players[i])]
                       ELSE gs
              setup == [drawn EXCEPT !.currentPhase = 0]
          IN IF checkRoundEnd(setup, FALSE) THEN endRound(setup) ELSE setup

(***************************************************************************)
(* Message handlers.  Each handler is a function from the session's state  *)
(* and the message payload to the state it leaves behind and the ERROR     *)
(* text it sends back ("" when it sends none).                             *)
(***************************************************************************)
Ok(gs) == [gs |-> gs, error |-> ""]
Rejected(gs, message) == [gs |-> gs, error |-> message]

\* Fault variant of handleToggleActivePlayer: performDrawPhase is not called
handleToggleActivePlayer_NoDraw(gs, playerId) ==
  IF gs.activePlayerId = playerId
  THEN Ok([gs EXCEPT !.activePlayerId = Undefined])
  ELSE Ok([gs EXCEPT !.activePlayerId = playerId, !.currentPhase = -1])

\* Fault variant of handleToggleActivePlayer: every deselection evaluates the
\* round end, whoever is deselected and whatever the phase
handleToggleActivePlayer_DeselectAlwaysChecks(gs, playerId) ==
  IF gs.activePlayerId = playerId
  THEN LET deselected == [gs EXCEPT !.activePlayerId = Undefined]
           setup == [deselected EXCEPT !.currentPhase = 0]
       IN IF checkRoundEnd(setup, TRUE)
          THEN Ok([endRound(setup) EXCEPT !.currentPhase = gs.currentPhase])
          ELSE Ok(deselected)
  ELSE Ok(performDrawPhase([gs EXCEPT !.activePlayerId = playerId,
                                      !.currentPhase = -1]))

\* handleToggleActivePlayer(ws, {gameId, playerId})
handleToggleActivePlayer(gs, playerId) ==
  LET previousActivePlayerId == gs.activePlayerId
  IN IF previousActivePlayerId = playerId
     THEN LET deselected == [gs EXCEPT !.activePlayerId = Undefined]
          IN IF playerId = gs.startingPlayerId /\ gs.currentPhase = 0
             THEN IF checkRoundEnd(deselected, TRUE)
                  THEN Ok(endRound(deselected))
                  ELSE Ok(deselected)
             ELSE Ok(deselected)
     ELSE Ok(performDrawPhase([gs EXCEPT !.activePlayerId = playerId,
                                         !.currentPhase = -1]))

\* handleNextPhase(ws, {gameId})
handleNextPhase(gs) ==
  IF ~gs.isGameStarted THEN Rejected(gs, "Game has not started")
  ELSE LET currentPhase == IF gs.currentPhase = 0 THEN 0 ELSE gs.currentPhase
           nextPhase == JsRemainder(currentPhase + 1, 4)
       IN Ok([gs EXCEPT !.currentPhase = nextPhase])

\* Fault variant of handlePrevPhase: (currentPhase - 1) % 4, without the + 4
handlePrevPhase_NoWrap(gs) ==
  IF ~gs.isGameStarted THEN Rejected(gs, "Game has not started")
  ELSE Ok([gs EXCEPT !.currentPhase = JsRemainder(gs.currentPhase - 1, 4)])

\* handlePrevPhase(ws, {gameId})
handlePrevPhase(gs) ==
  IF ~gs.isGameStarted THEN Rejected(gs, "Game has not started")
  ELSE LET currentPhase == IF gs.currentPhase = 0 THEN 0 ELSE gs.currentPhase
           prevPhase == JsRemainder(currentPhase - 1 + 4, 4)
       IN Ok([gs EXCEPT !.currentPhase = prevPhase])

\* handleSetPhase(ws, {gameId, phaseIndex})
handleSetPhase(gs, phaseIndex) ==
  LET numericPhaseIndex == Number(phaseIndex)
  IN IF ~gs.isGameStarted THEN Rejected(gs, "Game has not started")
     ELSE IF ~numericPhaseIndex.int
     THEN Rejected(gs, "Invalid phase index; must be an integer")
     ELSE IF numericPhaseIndex.v < -1 \/ numericPhaseIndex.v >= 4
     THEN Rejected(gs, "Invalid phase index. Must be between -1 and 3")
     ELSE Ok([gs EXCEPT !.currentPhase = numericPhaseIndex.v])

\* players.forEach(p => { p.score = 0 })
ResetScores(players) ==
  [i \in PlayerIndex(players) |-> [players[i] EXCEPT !.score = 0]]

\* Fault variant of handleStartNextRound: currentRound++ is left out
handleStartNextRound_SameRound(gs) ==
  IF ~gs.isGameStarted THEN Rejected(gs, "Game has not started")
  ELSE LET round == IF gs.gameWinner # Null
                    THEN [gs EXCEPT !.currentRound = 1,
                                    !.turnNumber = 1,
                                    !.roundWinners = <<>>,
                                    !.gameWinner = Null,
                                    !.roundEndTriggered = FALSE]
                    ELSE gs
       IN Ok([round EXCEPT !.players = ResetScores(round.players),
                           !.isRoundEndModalOpen = FALSE])

\* Fault variant of handleStartNextRound: the scores are not reset
handleStartNextRound_KeepsScores(gs) ==
  IF ~gs.isGameStarted THEN Rejected(gs, "Game has not started")
  ELSE LET round == IF gs.gameWinner # Null
                    THEN [gs EXCEPT !.currentRound = 1,
                                    !.turnNumber = 1,
                                    !.roundWinners = <<>>,
                                    !.gameWinner = Null,
                                    !.roundEndTriggered = FALSE]
                    ELSE [gs EXCEPT !.currentRound = gs.currentRound + 1]
       IN Ok([round EXCEPT !.isRoundEndModalOpen = FALSE])

\* handleStartNextRound(ws, {gameId})
handleStartNextRound(gs) ==
  IF ~gs.isGameStarted THEN Rejected(gs, "Game has not started")
  ELSE LET round == IF gs.gameWinner # Null
                    THEN [gs EXCEPT !.currentRound = 1,
                                    !.turnNumber = 1,
                                    !.roundWinners = <<>>,
                                    !.gameWinner = Null,
                                    !.roundEndTriggered = FALSE]
                    ELSE [gs EXCEPT !.currentRound = gs.currentRound + 1]
       IN Ok([round EXCEPT !.players = ResetScores(round.players),
                           !.isRoundEndModalOpen = FALSE])

\* Fault variant of handleStartNewMatch: roundEndTriggered is not cleared
handleStartNewMatch_KeepsMarker(gs) ==
  Ok([gs EXCEPT !.currentRound = 1,
                !.turnNumber = 1,
                !.roundWinners = <<>>,
                !.gameWinner = Null,
                !.isRoundEndModalOpen = FALSE,
                !.players = ResetScores(gs.players)])

\* handleStartNewMatch(ws, {gameId})
handleStartNewMatch(gs) ==
  Ok([gs EXCEPT !.currentRound = 1,
                !.turnNumber = 1,
                !.roundWinners = <<>>,
                !.gameWinner = Null,
                !.roundEndTriggered = FALSE,
                !.isRoundEndModalOpen = FALSE,
                !.players = ResetScores(gs.players)])

\* Fault variant of handleToggleAutoAbilities: enabled is not validated
handleToggleAutoAbilities_AnyValue(gs, enabled) ==
  Ok([gs EXCEPT !.autoAbilitiesEnabled = enabled])

\* handleToggleAutoAbilities(ws, {gameId, enabled})
handleToggleAutoAbilities(gs, enabled) ==
  IF ~IsBoolean(enabled)
  THEN Rejected(gs, "Invalid enabled value: must be a boolean")
  ELSE Ok([gs EXCEPT !.autoAbilitiesEnabled = enabled])

\* handleToggleAutoDraw(ws, {gameId, playerId, enabled})
handleToggleAutoDraw(gs, playerId, enabled) ==
  LET i == FindPlayer(gs.players, playerId)
  IN IF ~IsBoolean(enabled)
     THEN Rejected(gs, "Invalid enabled value: must be a boolean")
     ELSE IF i = 0 THEN Rejected(gs, "Player not found")
     ELSE Ok([gs EXCEPT !.players[i].autoDrawEnabled = enabled])

(***************************************************************************)
(* Ready check (readyCheck.ts).                                            *)
(***************************************************************************)
\* players.forEach(p => p.isReady = false)
ClearReady(players) ==
  [i \in PlayerIndex(players) |-> [players[i] EXCEPT !.isReady = FALSE]]

\* Fault variant of handleStartReadyCheck: isGameStarted is not looked at
handleStartReadyCheck_AfterStart(gs) ==
  Ok([gs EXCEPT !.players = ClearReady(gs.players),
                !.isReadyCheckActive = TRUE])

\* handleStartReadyCheck(ws, {gameId})
handleStartReadyCheck(gs) ==
  IF gs.isGameStarted THEN Rejected(gs, "Game already started")
  ELSE Ok([gs EXCEPT !.players = ClearReady(gs.players),
                     !.isReadyCheckActive = TRUE])

\* Fault variant of handleCancelReadyCheck: the ready flags are kept
handleCancelReadyCheck_KeepsReady(gs) ==
  IF ~gs.isReadyCheckActive THEN Ok(gs)
  ELSE Ok([gs EXCEPT !.isReadyCheckActive = FALSE])

\* handleCancelReadyCheck(ws, {gameId})
handleCancelReadyCheck(gs) ==
  IF ~gs.isReadyCheckActive THEN Ok(gs)
  ELSE Ok([gs EXCEPT !.isReadyCheckActive = FALSE,
                     !.players = ClearReady(gs.players)])

\* const cardsToDraw = 6
cardsToDraw == 6

\* for (let i = 0; i < cardsToDraw && i < player.deck.length; i++): the
\* bound player.deck.length is read again after every splice
RECURSIVE StartingHandLoop(_, _)
StartingHandLoop(player, i) ==
  IF i < cardsToDraw /\ i < Len(player.deck)
  THEN StartingHandLoop(DrawOne(player), i + 1)
  ELSE player

\* Fault variant of StartingHandShouldDraw: a dummy is treated as a real
\* player
StartingHandShouldDraw_DummyOwnSetting(players, i) ==
  players[i].autoDrawEnabled # Bool(FALSE)

\* shouldDraw of the starting-hand loop
StartingHandShouldDraw(players, i) ==
  LET host == FindPlayer(players, Num(1))
      hostAutoDrawEnabled ==
        host # 0 /\ players[host].autoDrawEnabled = Bool(TRUE)
  IN IF players[i].isDummy THEN hostAutoDrawEnabled
     ELSE players[i].autoDrawEnabled # Bool(FALSE)

\* Fault variant of DrawStartingHands: a player who holds cards is not skipped
DrawStartingHands_NoSkip(players) ==
  [i \in PlayerIndex(players) |->
     IF ~StartingHandShouldDraw(players, i) THEN players[i]
     ELSE StartingHandLoop(players[i], 0)]

\* The body of "for (const player of gameState.players)" for every player
DrawStartingHands(players) ==
  [i \in PlayerIndex(players) |->
     IF Len(players[i].hand) > 0 THEN players[i]
     ELSE IF ~StartingHandShouldDraw(players, i) THEN players[i]
     ELSE StartingHandLoop(players[i], 0)]

\* gameState.players.filter(p => !p.isDisconnected)
ConnectedPlayers(players) ==
  LET IsConnected(p) == ~p.isDisconnected
  IN SelectSeq(players, IsConnected)

\* Fault variant of RealPlayers: disconnected players are counted too
RealPlayers_CountsDisconnected(players) ==
  LET IsReal(p) == ~p.isDummy
  IN SelectSeq(players, IsReal)

\* gameState.players.filter(p => !p.isDummy && !p.isDisconnected)
RealPlayers(players) ==
  LET IsReal(p) == ~p.isDummy /\ ~p.isDisconnected
  IN SelectSeq(players, IsReal)

\* The values Math.floor(Math.random() * allPlayers.length) can take
RandomIndexes(gs) ==
  LET n == Len(ConnectedPlayers(gs.players))
  IN IF n = 0 THEN {0} ELSE 0..(n - 1)

\* Fault variant of StartGame: isReadyCheckActive is left as it is
StartGame_KeepsReadyCheck(gs, randomIndex) ==
  LET allPlayers == ConnectedPlayers(gs.players)
      first == Num(allPlayers[randomIndex + 1].id)
      dealt == [gs EXCEPT !.isGameStarted = TRUE,
                          !.autoDrawnPlayers = <<>>,
                          !.startingPlayerId = first,
                          !.activePlayerId = first,
                          !.players = DrawStartingHands(gs.players)]
  IN performDrawPhase([dealt EXCEPT !.currentPhase = -1])

\* The block run when all real players are ready; randomIndex is the value
\* of Math.floor(Math.random() * allPlayers.length)
StartGame(gs, randomIndex) ==
  LET allPlayers == ConnectedPlayers(gs.players)
      first == Num(allPlayers[randomIndex + 1].id)
      dealt == [gs EXCEPT !.isReadyCheckActive = FALSE,
                          !.isGameStarted = TRUE,
                          !.autoDrawnPlayers = <<>>,
                          !.startingPlayerId = first,
                          !.activePlayerId = first,
                          !.players = DrawStartingHands(gs.players)]
  IN performDrawPhase([dealt EXCEPT !.currentPhase = -1])

\* handlePlayerReady(ws, {gameId, playerId})
handlePlayerReady(gs, playerId, randomIndex) ==
  LET i == FindPlayer(gs.players, playerId)
  IN IF ~gs.isReadyCheckActive THEN Rejected(gs, "No active ready check")
     ELSE IF gs.isGameStarted THEN Ok(gs)
     ELSE IF IsFalsy(playerId) THEN Rejected(gs, "Player ID is required")
     ELSE IF i = 0 THEN Rejected(gs, "Player not found in game")
     ELSE LET marked == [gs EXCEPT !.players[i].isReady = TRUE]
              realPlayers == RealPlayers(marked.players)
              allReady == /\ Len(realPlayers) > 0
                          /\ \A k \in 1..Len(realPlayers) : realPlayers[k].isReady
          IN IF allReady /\ Len(realPlayers) >= 1
             THEN Ok(StartGame(marked, randomIndex))
             ELSE Ok(marked)

(***************************************************************************)
(* The session as created, before any message: two connected real players  *)
(* (player 1 is the host), empty hands, full decks, round 1, Setup phase.  *)
(***************************************************************************)
NewPlayer(id, isDummy, isDisconnected, deckSize) ==
  [id |-> id,
   score |-> 0,
   hand |-> <<>>,
   deck |-> [k \in 1..deckSize |-> id * 100 + k],
   isReady |-> FALSE,
   isDummy |-> isDummy,
   isDisconnected |-> isDisconnected,
   autoDrawEnabled |-> Undefined]

NewGame(players) ==
  [players |-> players,
   currentPhase |-> 0,
   activePlayerId |-> Null,
   startingPlayerId |-> Null,
   currentRound |-> 1,
   turnNumber |-> 1,
   roundWinners |-> <<>>,
   gameWinner |-> Null,
   isGameStarted |-> FALSE,
   isReadyCheckActive |-> FALSE,
   isRoundEndModalOpen |-> FALSE,
   roundEndTriggered |-> FALSE,
   autoAbilitiesEnabled |-> Bool(TRUE),
   autoDrawnPlayers |-> <<>>]

NoReply == [type |-> "", payload |-> <<>>, error |-> ""]

Init ==
  /\ gameState = NewGame(<<NewPlayer(1, FALSE, FALSE, MaxDeck),
                           NewPlayer(2, FALSE, FALSE, MaxDeck)>>)
  /\ reply = NoReply

(***************************************************************************)
(* Payload values tried by the model.                                      *)
(***************************************************************************)
\* an id no player of the session has
UnknownPlayerId == Num(9)

PlayerIdInputs == {Num(1), Num(2), UnknownPlayerId, Undefined}

PhaseIndexInputs ==
  {Num(n) : n \in -2..4} \cup {Frac(1), NumStr(2), Text, Null, Undefined}

(***************************************************************************)
(* Actions: one per message type.                                          *)
(***************************************************************************)
Handle(type, payload, outcome) ==
  /\ gameState' = outcome.gs
  /\ reply' = [type |-> type, payload |-> payload, error |-> outcome.error]

ToggleActivePlayer ==
  \E playerId \in PlayerIdInputs :
    Handle("TOGGLE_ACTIVE_PLAYER", <<playerId>>,
           handleToggleActivePlayer(gameState, playerId))

NextPhase == Handle("NEXT_PHASE", <<>>, handleNextPhase(gameState))

PrevPhase == Handle("PREV_PHASE", <<>>, handlePrevPhase(gameState))

SetPhase ==
  \E phaseIndex \in PhaseIndexInputs :
    Handle("SET_PHASE", <<phaseIndex>>, handleSetPhase(gameState, phaseIndex))

\* currentRound++ is kept within MaxRound
StartNextRound ==
  /\ \/ ~gameState.isGameStarted
     \/ gameState.gameWinner # Null
     \/ gameState.currentRound < MaxRound
  /\ Handle("START_NEXT_ROUND", <<>>, handleStartNextRound(gameState))

StartNewMatch ==
  Handle("START_NEW_MATCH", <<>>, handleStartNewMatch(gameState))

StartReadyCheck ==
  Handle("START_READY_CHECK", <<>>, handleStartReadyCheck(gameState))

CancelReadyCheck ==
  Handle("CANCEL_READY_CHECK", <<>>, handleCancelReadyCheck(gameState))

PlayerReady ==
  \E playerId \in PlayerIdInputs, randomIndex \in RandomIndexes(gameState) :
    Handle("PLAYER_READY", <<playerId>>,
           handlePlayerReady(gameState, playerId, randomIndex))

\* Scoring is done by game actions outside the phase handlers: a player's
\* score moves to just below or exactly the current round's threshold.
ScoreChange ==
  /\ gameState.isGameStarted
  /\ \E i \in PlayerIndex(gameState.players) :
       \E score \in {getRoundVictoryThreshold(gameState.currentRound) - 1,
                     getRoundVictoryThreshold(gameState.currentRound)} :
         /\ gameState' = [gameState EXCEPT !.players[i].score = score]
         /\ reply' = [type |-> "SCORE", payload |-> <<>>, error |-> ""]

Next ==
  \/ ToggleActivePlayer
  \/ NextPhase
  \/ PrevPhase
  \/ SetPhase
  \/ StartNextRound
  \/ StartNewMatch
  \/ StartReadyCheck
  \/ CancelReadyCheck
  \/ PlayerReady
  \/ ScoreChange

Spec == Init /\ [][Next]_vars

(***************************************************************************)
(* Turn changes with cards to draw.  The session has two real players and  *)
(* a dummy, each with a deck of MaxTurnDeck cards; players are selected    *)
(* and deselected, auto-draw is switched per player, and the ready check   *)
(* starts the match.                                                       *)
(***************************************************************************)
\* Number of cards in each deck of this session.
MaxTurnDeck == 2

InitTurn ==
  /\ gameState = NewGame(<<NewPlayer(1, FALSE, FALSE, MaxTurnDeck),
                           NewPlayer(2, FALSE, FALSE, MaxTurnDeck),
                           NewPlayer(3, TRUE, FALSE, MaxTurnDeck)>>)
  /\ reply = NoReply

AutoDrawPlayerInputs == {Num(1), Num(2), UnknownPlayerId}

EnabledInputs == {Bool(TRUE), Bool(FALSE), Undefined}

ToggleAutoDraw ==
  \E playerId \in AutoDrawPlayerInputs, enabled \in EnabledInputs :
    Handle("TOGGLE_AUTO_DRAW", <<playerId, enabled>>,
           handleToggleAutoDraw(gameState, playerId, enabled))

TurnPlayerIdInputs == {Num(1), Num(2), Num(3)}

SelectPlayer ==
  \E playerId \in TurnPlayerIdInputs :
    Handle("TOGGLE_ACTIVE_PLAYER", <<playerId>>,
           handleToggleActivePlayer(gameState, playerId))

ReadyUp ==
  \E playerId \in TurnPlayerIdInputs, randomIndex \in RandomIndexes(gameState) :
    Handle("PLAYER_READY", <<playerId>>,
           handlePlayerReady(gameState, playerId, randomIndex))

NextTurn ==
  \/ SelectPlayer
  \/ ToggleAutoDraw
  \/ StartReadyCheck
  \/ ReadyUp

SpecTurn == InitTurn /\ [][NextTurn]_vars

(***************************************************************************)
(* Ready check and match start over a family of sessions.  Every session   *)
(* has the host (player 1), a second real player and a dummy (player 3);   *)
(* the sessions differ in the deck size, in the auto-draw settings of the  *)
(* real players, in which real players are disconnected, and in whether    *)
(* player 2 already holds the front card of the deck.                      *)
(***************************************************************************)
\* Largest deck size of the family.
MaxDealDeck == 12

AutoDrawSettings == {Undefined, Bool(TRUE), Bool(FALSE)}

InitDeal ==
  \E deckSize \in 0..MaxDealDeck, hostAutoDraw, guestAutoDraw \in AutoDrawSettings,
     hostDisconnected, guestDisconnected, guestHoldsCard \in BOOLEAN :
    LET host  == [NewPlayer(1, FALSE, hostDisconnected, deckSize)
                    EXCEPT !.autoDrawEnabled = hostAutoDraw]
        fresh == [NewPlayer(2, FALSE, guestDisconnected, deckSize)
                    EXCEPT !.autoDrawEnabled = guestAutoDraw]
        guest == IF guestHoldsCard /\ deckSize > 0 THEN DrawOne(fresh) ELSE fresh
        dummy == NewPlayer(3, TRUE, FALSE, deckSize)
    IN /\ gameState = NewGame(<<host, guest, dummy>>)
       /\ reply = NoReply

DealPlayerIdInputs == {Num(1), Num(2), Num(3), UnknownPlayerId, Undefined}

AnyoneReady ==
  \E playerId \in DealPlayerIdInputs, randomIndex \in RandomIndexes(gameState) :
    Handle("PLAYER_READY", <<playerId>>,
           handlePlayerReady(gameState, playerId, randomIndex))

NextDeal ==
  \/ StartReadyCheck
  \/ CancelReadyCheck
  \/ AnyoneReady

SpecDeal == InitDeal /\ [][NextDeal]_vars

(***************************************************************************)
(* Cards through a whole match.  The session has two real players and a    *)
(* dummy, each with a deck of MaxCardDeck cards; the ready check starts    *)
(* the match, players are selected and deselected, and the phase and round *)
(* operations run.  No score changes, so no round ends here.               *)
(***************************************************************************)
\* Number of cards in each deck of this session.
MaxCardDeck == 2

InitCards ==
  /\ gameState = NewGame(<<NewPlayer(1, FALSE, FALSE, MaxCardDeck),
                           NewPlayer(2, FALSE, FALSE, MaxCardDeck),
                           NewPlayer(3, TRUE, FALSE, MaxCardDeck)>>)
  /\ reply = NoReply

\* the host switches auto-draw on, and with it the drawing of the dummy
HostAutoDraw ==
  Handle("TOGGLE_AUTO_DRAW", <<Num(1), Bool(TRUE)>>,
         handleToggleAutoDraw(gameState, Num(1), Bool(TRUE)))

\* the phase is set to Draw or to Scoring
CardPhaseInputs == {Num(-1), Num(3)}

SetCardPhase ==
  \E phaseIndex \in CardPhaseInputs :
    Handle("SET_PHASE", <<phaseIndex>>, handleSetPhase(gameState, phaseIndex))

NextCards ==
  \/ StartReadyCheck
  \/ ReadyUp
  \/ SelectPlayer
  \/ HostAutoDraw
  \/ NextPhase
  \/ PrevPhase
  \/ SetCardPhase
  \/ StartNextRound
  \/ StartNewMatch

SpecCards == InitCards /\ [][NextCards]_vars

(***************************************************************************)
(* Settings during a match.  The session of two real players is started by *)
(* the ready check, players are selected and deselected and scores move,   *)
(* while auto-abilities and the players' auto-draw are switched.           *)
(***************************************************************************)
ToggleAutoAbilities ==
  \E enabled \in EnabledInputs :
    Handle("TOGGLE_AUTO_ABILITIES", <<enabled>>,
           handleToggleAutoAbilities(gameState, enabled))

NextSettings ==
  \/ ToggleAutoAbilities
  \/ ToggleAutoDraw
  \/ StartReadyCheck
  \/ PlayerReady
  \/ ToggleActivePlayer
  \/ ScoreChange

SpecSettings == Init /\ [][NextSettings]_vars

(***************************************************************************)
(* Board status engine (utils/boardUtils.ts).  A board is a square array   *)
(* of cells, board[r][c] with r, c in 0..GRID_MAX_SIZE-1; the card of a    *)
(* cell is a record, or Null in an empty cell.  A card has an id, a        *)
(* baseId, an ownerId (Undefined on an unowned card), a face-down flag, a  *)
(* list of statuses and a bonusPower (Undefined when the property is not   *)
(* there).                                                                 *)
(***************************************************************************)
GRID_MAX_SIZE == 7

HERO_MR_PEARL_ID == "mrPearlDoF"
HERO_REVEREND_ID == "reverendOfTheChoir"

\* board.length
BoardSize(board) == Cardinality(DOMAIN board)

GridIndex(board) == 0..(BoardSize(board) - 1)

\* createInitialBoard()
createInitialBoard ==
  [r \in 0..(GRID_MAX_SIZE - 1) |-> [c \in 0..(GRID_MAX_SIZE - 1) |-> Null]]

\* Math.floor(a / 2), also for negative a
FloorHalf(a) == IF a >= 0 THEN a \div 2 ELSE -((1 - a) \div 2)

\* statuses.some(s => s.type === type)
HasStatus(card, type) ==
  \E k \in 1..Len(card.statuses) : card.statuses[k].type = type

\* statuses.filter(s => s.type !== 'Support' && s.type !== 'Threat')
WithoutAutoStatuses(statuses) ==
  LET IsKept(st) == st.type # "Support" /\ st.type # "Threat"
  IN SelectSeq(statuses, IsKept)

\* Fault variant of PushStatus: the status is pushed whether present or not
PushStatus_Always(card, type, addedByPlayerId) ==
  [card EXCEPT !.statuses =
     Append(@, [type |-> type, addedByPlayerId |-> addedByPlayerId])]

\* if (!statuses.some(s => s.type === type)) statuses.push({type, addedByPlayerId})
PushStatus(card, type, addedByPlayerId) ==
  IF HasStatus(card, type) THEN card
  ELSE [card EXCEPT !.statuses =
          Append(@, [type |-> type, addedByPlayerId |-> addedByPlayerId])]

\* Fault variant of cloneBoard: the copy shares its cards with the board
cloneBoard_Shallow(board) == [board |-> board, aliased |-> TRUE]

\* cloneBoard(board): a deep copy; aliased says whether the copy shares its
\* card objects with the board it was made from
cloneBoard(board) == [board |-> board, aliased |-> FALSE]

\* playerTeamMap.get(ownerId): undefined for an id that no player has
TeamOf(players, ownerId) ==
  LET i == FindPlayer(players, ownerId)
  IN IF i = 0 THEN Undefined ELSE players[i].teamId

\* Fault variant of ResetCard: the bonus power is not deleted
ResetCard_KeepsBonusPower(card) ==
  [card EXCEPT !.statuses = WithoutAutoStatuses(@)]

\* Fault variant of ResetCard: the statuses are not filtered
ResetCard_KeepsStatuses(card) ==
  [card EXCEPT !.bonusPower = Undefined]

\* Step 1: remove the auto statuses and the bonus power of one card
ResetCard(card) ==
  [card EXCEPT !.statuses = WithoutAutoStatuses(@), !.bonusPower = Undefined]

\* Step 1 for the whole board
ResetDynamic(board) ==
  [r \in GridIndex(board) |-> [c \in GridIndex(board) |->
     IF board[r][c] = Null THEN Null ELSE ResetCard(board[r][c])]]

\* neighborsPos that lie on the board
NeighborsPos(board, r, c) ==
  {pos \in {<<r - 1, c>>, <<r + 1, c>>, <<r, c - 1>>, <<r, c + 1>>} :
     pos[1] \in GridIndex(board) /\ pos[2] \in GridIndex(board)}

\* Fault variant of IsEligibleNeighbor: a stunned neighbour counts
IsEligibleNeighbor_CountsStunned(card) ==
  /\ card # Null
  /\ card.ownerId # Undefined
  /\ ~card.isFaceDown

\* the neighbour counts: owned, not face down, not stunned
IsEligibleNeighbor(card) ==
  /\ card # Null
  /\ card.ownerId # Undefined
  /\ ~card.isFaceDown
  /\ ~HasStatus(card, "Stun")

\* isFriendly
IsFriendly(players, ownerId, neighborOwnerId) ==
  LET ownerTeamId == TeamOf(players, ownerId)
      neighborTeamId == TeamOf(players, neighborOwnerId)
  IN \/ ownerId = neighborOwnerId
     \/ ownerTeamId # Undefined /\ ownerTeamId = neighborTeamId

\* enemyNeighborsByPlayer[id].length for the card at (r, c), as a function
\* on the ids that are keys of the object
EnemyNeighborsByPlayer(board, players, r, c) ==
  LET ownerId == board[r][c].ownerId
      enemies == {pos \in NeighborsPos(board, r, c) :
                    /\ IsEligibleNeighbor(board[pos[1]][pos[2]])
                    /\ ~IsFriendly(players, ownerId,
                                   board[pos[1]][pos[2]].ownerId)}
      keys == {board[pos[1]][pos[2]].ownerId.v : pos \in enemies}
  IN [id \in keys |->
        Cardinality({pos \in enemies : board[pos[1]][pos[2]].ownerId.v = id})]

\* hasFriendlyNeighbor for the card at (r, c)
HasFriendlyNeighbor(board, players, r, c) ==
  \E pos \in NeighborsPos(board, r, c) :
    /\ IsEligibleNeighbor(board[pos[1]][pos[2]])
    /\ IsFriendly(players, board[r][c].ownerId, board[pos[1]][pos[2]].ownerId)

\* Fault variant of FirstKey: the greatest key
FirstKey_Greatest(keys) == CHOOSE k \in keys : \A other \in keys : k >= other

\* the least element of a non-empty set of integers: the first key of an
\* object with integer keys
FirstKey(keys) == CHOOSE k \in keys : \A other \in keys : k <= other

\* Fault variant of ThreateningPlayerId: the edge test uses the size of the
\* board for the size of the active grid
ThreateningPlayerId_BoardEdge(board, players, activeGridSize, r, c) ==
  LET byPlayer == EnemyNeighborsByPlayer(board, players, r, c)
      pinning == {id \in DOMAIN byPlayer : byPlayer[id] >= 2}
      isCardOnEdge == \/ r = 0 \/ r = BoardSize(board) - 1
                      \/ c = 0 \/ c = BoardSize(board) - 1
      hasEnemyNeighbor == DOMAIN byPlayer # {}
  IN IF pinning # {} THEN Num(FirstKey(pinning))
     ELSE IF isCardOnEdge /\ hasEnemyNeighbor
     THEN Num(FirstKey(DOMAIN byPlayer))
     ELSE Null

\* Fault variant of ThreateningPlayerId: under condition A the first key is
\* taken, whether or not that player has two neighbours
ThreateningPlayerId_FirstKeyWhenPinned(board, players, activeGridSize, r, c) ==
  LET byPlayer == EnemyNeighborsByPlayer(board, players, r, c)
      pinning == {id \in DOMAIN byPlayer : byPlayer[id] >= 2}
      offset == FloorHalf(BoardSize(board) - activeGridSize)
      isActiveCell == /\ r >= offset /\ r < offset + activeGridSize
                      /\ c >= offset /\ c < offset + activeGridSize
      isCardOnEdge == \/ r = offset \/ r = offset + activeGridSize - 1
                      \/ c = offset \/ c = offset + activeGridSize - 1
      hasEnemyNeighbor == DOMAIN byPlayer # {}
  IN IF pinning # {} THEN Num(FirstKey(DOMAIN byPlayer))
     ELSE IF isActiveCell /\ isCardOnEdge /\ hasEnemyNeighbor
     THEN Num(FirstKey(DOMAIN byPlayer))
     ELSE Null

\* threateningPlayerId for the card at (r, c): Num(id), or Null
ThreateningPlayerId(board, players, activeGridSize, r, c) ==
  LET byPlayer == EnemyNeighborsByPlayer(board, players, r, c)
      pinning == {id \in DOMAIN byPlayer : byPlayer[id] >= 2}
      offset == FloorHalf(BoardSize(board) - activeGridSize)
      isActiveCell == /\ r >= offset /\ r < offset + activeGridSize
                      /\ c >= offset /\ c < offset + activeGridSize
      isCardOnEdge == \/ r = offset \/ r = offset + activeGridSize - 1
                      \/ c = offset \/ c = offset + activeGridSize - 1
      hasEnemyNeighbor == DOMAIN byPlayer # {}
  IN IF pinning # {} THEN Num(FirstKey(pinning))
     ELSE IF isActiveCell /\ isCardOnEdge /\ hasEnemyNeighbor
     THEN Num(FirstKey(DOMAIN byPlayer))
     ELSE Null

\* Step 2 for the card at (r, c).  The step reads owners, face-down flags and
\* Stun only and writes Support and Threat only, so the cells do not depend
\* on the order in which the loop visits them.
StandardStatuses(board, players, activeGridSize, r, c) ==
  LET card == board[r][c]
  IN IF card = Null THEN card
     ELSE IF card.ownerId = Undefined \/ card.isFaceDown THEN card
     ELSE LET supported == IF HasFriendlyNeighbor(board, players, r, c)
                           THEN PushStatus(card, "Support", card.ownerId)
                           ELSE card
              threateningPlayerId ==
                ThreateningPlayerId(board, players, activeGridSize, r, c)
          IN IF threateningPlayerId # Null
             THEN PushStatus(supported, "Threat", threateningPlayerId)
             ELSE supported

\* Step 2 for the whole board
StandardLogic(board, players, activeGridSize) ==
  [r \in GridIndex(board) |-> [c \in GridIndex(board) |->
     StandardStatuses(board, players, activeGridSize, r, c)]]

\* Fault variant of IsActiveCard: a stunned or face-down card counts
IsActiveCard_AnyOwned(card) ==
  /\ card # Null
  /\ card.ownerId # Undefined

\* the condition of the hero pass on a card: face up, owned, not stunned
IsActiveCard(card) ==
  /\ card # Null
  /\ ~card.isFaceDown
  /\ card.ownerId # Undefined
  /\ ~HasStatus(card, "Stun")

\* Step 3, the single pass that collects the heroes; cells are numbered row
\* by row, k = r * size + c, and visited from cell k on
RECURSIVE HeroPositions(_, _)
HeroPositions(board, k) ==
  LET size == BoardSize(board)
      r == k \div size
      c == k % size
      card == board[r][c]
  IN IF k >= size * size THEN <<>>
     ELSE IF /\ IsActiveCard(card)
             /\ card.baseId \in {HERO_REVEREND_ID, HERO_MR_PEARL_ID}
     THEN <<[r |-> r, c |-> c, ownerId |-> card.ownerId,
             baseId |-> card.baseId]>> \o HeroPositions(board, k + 1)
     ELSE HeroPositions(board, k + 1)

\* the heroes of one template, in the order of the pass
HeroesOf(heroes, baseId) ==
  LET IsOfTemplate(hero) == hero.baseId = baseId
  IN SelectSeq(heroes, IsOfTemplate)

\* Fault variant of IsReverendTarget: the Reverend cards are no targets
IsReverendTarget_NotTheHero(target, ownerId) ==
  /\ target # Null /\ target.ownerId = ownerId /\ ~target.isFaceDown
  /\ target.baseId # HERO_REVEREND_ID

\* the target test of the Reverend loops
IsReverendTarget(target, ownerId) ==
  target # Null /\ target.ownerId = ownerId /\ ~target.isFaceDown

\* Fault variant of IsPearlTarget: a Mr. Pearl card is a target as well
IsPearlTarget_IncludesPearl(target, ownerId) ==
  target # Null /\ target.ownerId = ownerId /\ ~target.isFaceDown

\* the target test of the Mr. Pearl loops
IsPearlTarget(target, ownerId) ==
  /\ target # Null /\ target.ownerId = ownerId /\ ~target.isFaceDown
  /\ target.baseId # HERO_MR_PEARL_ID

\* target.bonusPower = (target.bonusPower || 0) + 1
AddBonusPower(card) ==
  [card EXCEPT !.bonusPower =
     Num((IF IsFalsy(@) THEN 0 ELSE @.v) + 1)]

\* the loop over the reverends: the row of a hero, then its column, each
\* only if no earlier hero of the same owner has processed it
RECURSIVE ReverendLoop(_, _, _, _)
ReverendLoop(board, reverends, processedRows, processedCols) ==
  IF reverends = <<>> THEN board
  ELSE LET hero == Head(reverends)
           rowKey == <<hero.r, hero.ownerId>>
           colKey == <<hero.c, hero.ownerId>>
           inLines(r, c) == \/ rowKey \notin processedRows /\ r = hero.r
                            \/ colKey \notin processedCols /\ c = hero.c
           after == [r \in GridIndex(board) |-> [c \in GridIndex(board) |->
                       IF inLines(r, c)
                          /\ IsReverendTarget(board[r][c], hero.ownerId)
                       THEN PushStatus(board[r][c], "Support", hero.ownerId)
                       ELSE board[r][c]]]
       IN ReverendLoop(after, Tail(reverends),
                       processedRows \cup {rowKey}, processedCols \cup {colKey})

\* the loop over the mrPearls; a target is in the row of the hero or in its
\* column, never in both, because the cell of the hero holds the hero
RECURSIVE MrPearlLoop(_, _, _, _)
MrPearlLoop(board, mrPearls, processedRows, processedCols) ==
  IF mrPearls = <<>> THEN board
  ELSE LET hero == Head(mrPearls)
           rowKey == <<hero.r, hero.ownerId>>
           colKey == <<hero.c, hero.ownerId>>
           inLines(r, c) == \/ rowKey \notin processedRows /\ r = hero.r
                            \/ colKey \notin processedCols /\ c = hero.c
           after == [r \in GridIndex(board) |-> [c \in GridIndex(board) |->
                       IF inLines(r, c)
                          /\ IsPearlTarget(board[r][c], hero.ownerId)
                       THEN AddBonusPower(board[r][c])
                       ELSE board[r][c]]]
       IN MrPearlLoop(after, Tail(mrPearls),
                      processedRows \cup {rowKey}, processedCols \cup {colKey})

\* Step 3: both hero lists are collected before either loop runs
HeroPassives(board) ==
  LET heroes == HeroPositions(board, 0)
      reverends == HeroesOf(heroes, HERO_REVEREND_ID)
      mrPearls == HeroesOf(heroes, HERO_MR_PEARL_ID)
  IN MrPearlLoop(ReverendLoop(board, reverends, {}, {}), mrPearls, {}, {})

\* recalculateBoardStatuses(gameState): the returned board, and the board of
\* the argument as the call leaves it.  The three steps write to the cards of
\* the clone; they are the cards of the argument when the clone shares them.
recalculateBoardStatuses(gs) ==
  LET clone == cloneBoard(gs.board)
      newBoard == HeroPassives(
                    StandardLogic(ResetDynamic(clone.board), gs.players,
                                  gs.activeGridSize))
  IN [newBoard |-> newBoard,
      board |-> IF clone.aliased THEN newBoard ELSE gs.board]

(***************************************************************************)
(* A specification for the board status engine.  gameState holds the       *)
(* fields recalculateBoardStatuses destructures.  A match begins with a    *)
(* board on which cards lie as the game actions outside the engine put     *)
(* them: no card has a derived status yet.  Recalculate replaces the board *)
(* by the board the engine returns; RemoveCard stands for the game actions *)
(* that change the board between two recalculations, and leaves the        *)
(* derived statuses of the other cards as they were.                       *)
(***************************************************************************)
\* the players of a board match: 1 and 2 are team mates, 3 and 4 have no team
BoardPlayers ==
  <<[id |-> 1, teamId |-> Num(1)], [id |-> 2, teamId |-> Num(1)],
    [id |-> 3, teamId |-> Undefined], [id |-> 4, teamId |-> Undefined]>>

\* a card as it comes to the board
NewCard(baseId, ownerId, isFaceDown, isStunned) ==
  [id |-> baseId, baseId |-> baseId, ownerId |-> ownerId,
   isFaceDown |-> isFaceDown,
   statuses |-> IF isStunned
                THEN <<[type |-> "Stun", addedByPlayerId |-> Num(3)]>>
                ELSE <<>>,
   bonusPower |-> Undefined]

\* the cards that are put on the cells
CardKinds ==
  {NewCard("unit", Num(1), FALSE, FALSE),
   NewCard("unit", Num(1), TRUE, FALSE),
   NewCard("unit", Num(1), FALSE, TRUE),
   NewCard(HERO_REVEREND_ID, Num(1), FALSE, FALSE),
   NewCard(HERO_REVEREND_ID, Num(1), FALSE, TRUE),
   NewCard(HERO_MR_PEARL_ID, Num(1), FALSE, FALSE),
   NewCard(HERO_MR_PEARL_ID, Num(1), TRUE, FALSE),
   NewCard(HERO_REVEREND_ID, Num(2), FALSE, FALSE),
   NewCard(HERO_MR_PEARL_ID, Num(3), FALSE, FALSE),
   NewCard("unit", Num(4), FALSE, FALSE),
   NewCard("unit", Undefined, FALSE, FALSE)}

\* the cards that are put around a card with three neighbours
PincerKinds ==
  {NewCard("unit", Num(1), FALSE, FALSE),
   NewCard("unit", Num(1), FALSE, TRUE),
   NewCard(HERO_REVEREND_ID, Num(1), FALSE, FALSE),
   NewCard(HERO_REVEREND_ID, Num(2), FALSE, FALSE),
   NewCard(HERO_MR_PEARL_ID, Num(3), FALSE, FALSE),
   NewCard("unit", Num(4), FALSE, FALSE)}

\* the cells that hold cards, with the size of the active grid and the cards
\* that are put on them:
\*   a row that runs from outside the active region over its first column
\*   into its interior;
\*   a column that runs from the interior over the last row of the active
\*   region to the outside (the difference of the sizes is odd);
\*   a corner of three cells on the first row and the first column;
\*   a corner of three cells next to the last row and the last column;
\*   a cell on the first row of the active region with its neighbours above,
\*   to the left and to the right
BoardFrames ==
  {[cells |-> << <<2, 0>>, <<2, 1>>, <<2, 2>> >>, activeGridSize |-> 5,
    kinds |-> CardKinds],
   [cells |-> << <<4, 4>>, <<5, 4>>, <<6, 4>> >>, activeGridSize |-> 6,
    kinds |-> CardKinds],
   [cells |-> << <<1, 1>>, <<1, 2>>, <<2, 1>> >>, activeGridSize |-> 5,
    kinds |-> CardKinds],
   [cells |-> << <<5, 5>>, <<5, 6>>, <<6, 5>> >>, activeGridSize |-> 7,
    kinds |-> CardKinds],
   [cells |-> << <<1, 3>>, <<0, 3>>, <<1, 2>>, <<1, 4>> >>,
    activeGridSize |-> 5, kinds |-> PincerKinds]}

\* the board with the cards of the sequence cards on the cells
BoardWith(cells, cards) ==
  [r \in 0..(GRID_MAX_SIZE - 1) |-> [c \in 0..(GRID_MAX_SIZE - 1) |->
     IF \E k \in DOMAIN cells : cells[k] = <<r, c>>
     THEN cards[CHOOSE k \in DOMAIN cells : cells[k] = <<r, c>>]
     ELSE createInitialBoard[r][c]]]

InitBoard ==
  /\ \E frame \in BoardFrames :
     \E cards \in [DOMAIN frame.cells -> frame.kinds \cup {Null}] :
       gameState = [board |-> BoardWith(frame.cells, cards),
                    activeGridSize |-> frame.activeGridSize,
                    players |-> BoardPlayers,
                    currentPhase |-> 0,
                    activePlayerId |-> Null,
                    currentRound |-> 1]
  /\ reply = NoReply

\* gameState.board = recalculateBoardStatuses(gameState)
Recalculate ==
  LET result == recalculateBoardStatuses(gameState)
  IN /\ gameState' = [gameState EXCEPT !.board = result.newBoard]
     /\ reply' = [type |-> "RECALCULATE", payload |-> <<>>, error |-> ""]

\* a card leaves the board
RemoveCard ==
  \E r \in GridIndex(gameState.board), c \in GridIndex(gameState.board) :
    /\ gameState.board[r][c] # Null
    /\ gameState' = [gameState EXCEPT !.board[r][c] = Null]
    /\ reply' = [type |-> "REMOVE_CARD", payload |-> <<>>, error |-> ""]

NextBoard == Recalculate \/ RemoveCard

SpecBoard == InitBoard /\ [][NextBoard]_vars

(***************************************************************************)
(* Vocabulary of the properties.                                           *)
(***************************************************************************)
\* the ids in the winner list recorded for round r
WinnerSet(gs, r) ==
  {gs.roundWinners[r][i] : i \in 1..Len(gs.roundWinners[r])}

\* the ids of the players no other player outscores
TopScorers(gs) ==
  {gs.players[i].id : i \in {k \in PlayerIndex(gs.players) :
      \A j \in PlayerIndex(gs.players) : gs.players[j].score <= gs.players[k].score}}

\* the rounds whose recorded winner list holds id
RoundsWonBy(gs, id) ==
  {r \in DOMAIN gs.roundWinners : id \in WinnerSet(gs, r)}

\* some player has reached the score n
SomeScoreAtLeast(gs, n) ==
  \E i \in PlayerIndex(gs.players) : gs.players[i].score >= n

\* the last message handled was of this type and drew no ERROR
Accepted(type) == reply.type = type /\ reply.error = ""

(***************************************************************************)
(* C1.  checkRoundEnd reports a round end if and only if the match has     *)
(* started, the round-end modal is closed, the phase is Setup(0), the      *)
(* check is the deselect variant or the active player is the starting      *)
(* player, and the highest score is at least 10 + 10 * currentRound.  In   *)
(* round 1 a highest score of 20 ends the round and one of 19 does not.    *)
(***************************************************************************)
RoundEndCondition(gs, isDeselectCheck) ==
  /\ gs.isGameStarted
  /\ ~gs.isRoundEndModalOpen
  /\ gs.currentPhase = 0
  /\ (isDeselectCheck \/ gs.activePlayerId = gs.startingPlayerId)
  /\ SomeScoreAtLeast(gs, 10 + 10 * gs.currentRound)

C1_CheckRoundEnd ==
  /\ \A isDeselectCheck \in BOOLEAN :
       checkRoundEnd(gameState, isDeselectCheck)
         <=> RoundEndCondition(gameState, isDeselectCheck)
  /\ ( /\ gameState.currentRound = 1
       /\ gameState.isGameStarted
       /\ ~gameState.isRoundEndModalOpen
       /\ gameState.currentPhase = 0
       /\ gameState.activePlayerId = gameState.startingPlayerId )
     => /\ SomeScoreAtLeast(gameState, 20) => checkRoundEnd(gameState, FALSE)
        /\ ~SomeScoreAtLeast(gameState, 20) => ~checkRoundEnd(gameState, FALSE)

\* round 1, Setup, the starting player active with a score of exactly 20
C1_Witness ==
  /\ checkRoundEnd(gameState, FALSE)
  /\ gameState.currentRound = 1
  /\ SomeScoreAtLeast(gameState, 20) /\ ~SomeScoreAtLeast(gameState, 21)

(***************************************************************************)
(* C2.  A round-end resolution records as roundWinners[currentRound]       *)
(* exactly the players whose score equals the highest score (all tied      *)
(* players, nobody else) and sets isRoundEndModalOpen and                  *)
(* roundEndTriggered.  A step resolves a round end when it opens the       *)
(* modal, sets the marker or writes a winner list.                         *)
(***************************************************************************)
RoundEndStep ==
  \/ ~gameState.isRoundEndModalOpen /\ gameState'.isRoundEndModalOpen
  \/ ~gameState.roundEndTriggered /\ gameState'.roundEndTriggered
  \/ /\ gameState'.roundWinners # gameState.roundWinners
     /\ DOMAIN gameState'.roundWinners # {}

C2_EndRoundRecordsTopScorers ==
  [][RoundEndStep =>
       /\ gameState'.currentRound = gameState.currentRound
       /\ gameState'.currentRound \in DOMAIN gameState'.roundWinners
       /\ WinnerSet(gameState', gameState'.currentRound) = TopScorers(gameState')
       /\ Len(gameState'.roundWinners[gameState'.currentRound])
            = Cardinality(TopScorers(gameState'))
       /\ gameState'.isRoundEndModalOpen
       /\ gameState'.roundEndTriggered]_vars

\* round 1 has just ended in a tie of both players
C2_Witness ==
  /\ Accepted("TOGGLE_ACTIVE_PLAYER")
  /\ gameState.currentRound = 1
  /\ DOMAIN gameState.roundWinners = {1}
  /\ WinnerSet(gameState, 1) = {1, 2}
  /\ gameState.isRoundEndModalOpen
  /\ gameState.roundEndTriggered

(***************************************************************************)
(* C3.  gameWinner is only ever a player who is in the recorded winner     *)
(* lists of at least 2 distinct rounds of the current match, and right     *)
(* after a round-end resolution that leaves some player in the winner      *)
(* lists of 2 distinct rounds gameWinner is such a player.  A player in    *)
(* one round's list only is never gameWinner.                              *)
(***************************************************************************)
WonTwoRounds(gs, id) == Cardinality(RoundsWonBy(gs, id)) >= 2

GameWinnerWonTwoRounds(gs) ==
  gs.gameWinner # Null =>
    /\ gs.gameWinner.t = "number"
    /\ WonTwoRounds(gs, gs.gameWinner.v)

C3_GameWinnerWonTwoRounds ==
  [][/\ GameWinnerWonTwoRounds(gameState')
     /\ ( /\ RoundEndStep
          /\ \E i \in PlayerIndex(gameState'.players) :
               WonTwoRounds(gameState', gameState'.players[i].id) )
        => gameState'.gameWinner # Null]_vars

\* player 1 won round 1 and round 2 and is the match winner
C3_Witness ==
  /\ gameState.currentRound = 2
  /\ DOMAIN gameState.roundWinners = {1, 2}
  /\ WinnerSet(gameState, 1) = {1}
  /\ WinnerSet(gameState, 2) = {1}
  /\ gameState.gameWinner = Num(1)

(***************************************************************************)
(* C4.  Once gameWinner is a player it stays that player in every later    *)
(* state, whatever toggleActivePlayer, phase and round operations follow,  *)
(* until startNextRound (as rematch) or startNewMatch clears it.           *)
(***************************************************************************)
C4_GameWinnerFixed ==
  [][gameState.gameWinner # Null =>
       \/ gameState'.gameWinner = gameState.gameWinner
       \/ /\ gameState'.gameWinner = Null
          /\ reply'.type \in {"START_NEXT_ROUND", "START_NEW_MATCH"}]_vars

\* with a match winner set, the scores moved on and the starting player was
\* activated again in Setup: the winner lists and the winner stand
C4_Witness ==
  /\ gameState.gameWinner # Null
  /\ Accepted("TOGGLE_ACTIVE_PLAYER")
  /\ gameState.currentPhase = 0
  /\ gameState.activePlayerId = gameState.startingPlayerId
  /\ SomeScoreAtLeast(gameState, 10 + 10 * gameState.currentRound)
  /\ TopScorers(gameState) # WinnerSet(gameState, gameState.currentRound)

(***************************************************************************)
(* C5.  Within one match the winner list of a round number is written at   *)
(* most once: a recorded roundWinners[r] is kept as it is by every         *)
(* operation except the resets (startNewMatch, startNextRound as rematch), *)
(* and a round end is only ever resolved for a round without a record.     *)
(***************************************************************************)
WinRecordsReset ==
  /\ gameState'.roundWinners = <<>>
  /\ \/ reply'.type = "START_NEW_MATCH"
     \/ reply'.type = "START_NEXT_ROUND" /\ gameState.gameWinner # Null

C5_RoundWinnersWrittenOnce ==
  [][/\ \A r \in DOMAIN gameState.roundWinners :
          \/ /\ r \in DOMAIN gameState'.roundWinners
             /\ gameState'.roundWinners[r] = gameState.roundWinners[r]
          \/ WinRecordsReset
     /\ RoundEndStep =>
          gameState.currentRound \notin DOMAIN gameState.roundWinners]_vars

\* round 1 was won by player 1; later round 2 ended with another winner
C5_Witness ==
  /\ gameState.currentRound = 2
  /\ DOMAIN gameState.roundWinners = {1, 2}
  /\ WinnerSet(gameState, 1) = {1}
  /\ WinnerSet(gameState, 2) = {2}
  /\ gameState.isRoundEndModalOpen

(***************************************************************************)
(* C6.  Draw(-1) is never observable: every state a completed operation    *)
(* leaves behind on a started match has currentPhase in {0,1,2,3}.         *)
(***************************************************************************)
C6_DrawNeverObserved ==
  gameState.isGameStarted => gameState.currentPhase \in 0..3

(***************************************************************************)
(* C7.  On a match that has not started, advancePhase, retreatPhase,       *)
(* setPhase and toggleActivePlayer are rejected and leave currentPhase,    *)
(* activePlayerId and every hand and deck as they were.                    *)
(***************************************************************************)
HandsAndDecksUnchanged ==
  \A i \in PlayerIndex(gameState.players) :
    /\ gameState'.players[i].hand = gameState.players[i].hand
    /\ gameState'.players[i].deck = gameState.players[i].deck

C7_NotStartedRejected ==
  [][( /\ ~gameState.isGameStarted
       /\ reply'.type \in {"NEXT_PHASE", "PREV_PHASE", "SET_PHASE",
                           "TOGGLE_ACTIVE_PLAYER"} )
     => /\ reply'.error # ""
        /\ gameState'.currentPhase = gameState.currentPhase
        /\ gameState'.activePlayerId = gameState.activePlayerId
        /\ HandsAndDecksUnchanged]_vars

(***************************************************************************)
(* C8.  toggleActivePlayer with a missing player id, or with an id no      *)
(* player of the session has, is rejected and leaves activePlayerId,       *)
(* currentPhase, roundWinners and all hands and decks as they were.        *)
(***************************************************************************)
C8_UnknownPlayerToggleRejected ==
  [][( /\ gameState.isGameStarted
       /\ reply'.type = "TOGGLE_ACTIVE_PLAYER"
       /\ reply'.payload[1] \in {UnknownPlayerId, Undefined} )
     => /\ reply'.error # ""
        /\ gameState'.activePlayerId = gameState.activePlayerId
        /\ gameState'.currentPhase = gameState.currentPhase
        /\ gameState'.roundWinners = gameState.roundWinners
        /\ HandsAndDecksUnchanged]_vars

(***************************************************************************)
(* C9.  On a started match advancePhase takes phase p in {0,1,2,3} to      *)
(* (p+1) mod 4 and retreatPhase takes it to (p-1) mod 4, each undoes the   *)
(* other, neither ever leaves Draw(-1) behind, and both change nothing     *)
(* but currentPhase.                                                       *)
(***************************************************************************)
C9_AdvanceRetreatCycle ==
  [][LET p == gameState.currentPhase
     IN /\ ( gameState.isGameStarted /\ reply'.type = "NEXT_PHASE" )
           => /\ reply'.error = ""
              /\ gameState'.currentPhase # -1
              /\ p \in 0..3 =>
                   /\ gameState' = [gameState EXCEPT !.currentPhase = (p + 1) % 4]
                   /\ handlePrevPhase(gameState').gs = gameState
        /\ ( gameState.isGameStarted /\ reply'.type = "PREV_PHASE" )
           => /\ reply'.error = ""
              /\ gameState'.currentPhase # -1
              /\ p \in 0..3 =>
                   /\ gameState' = [gameState EXCEPT !.currentPhase = (p - 1) % 4]
                   /\ handleNextPhase(gameState').gs = gameState]_vars

\* retreatPhase has just wrapped from Setup(0) to Scoring(3)
C9_Witness ==
  /\ gameState.isGameStarted
  /\ Accepted("PREV_PHASE")
  /\ gameState.currentPhase = 3

(***************************************************************************)
(* C10.  setPhase on a started match accepts exactly the integers -1, 0,   *)
(* 1, 2, 3: for such an index currentPhase becomes the index and nothing   *)
(* else changes; any other input is rejected and the state is unchanged.   *)
(***************************************************************************)
C10_SetPhaseAcceptsIntegersOnly ==
  [][( gameState.isGameStarted /\ reply'.type = "SET_PHASE" )
     => LET phaseIndex == reply'.payload[1]
        IN IF phaseIndex \in {Num(n) : n \in -1..3}
           THEN /\ reply'.error = ""
                /\ gameState' = [gameState EXCEPT !.currentPhase = phaseIndex.v]
           ELSE /\ reply'.error # ""
                /\ gameState' = gameState]_vars

(***************************************************************************)
(* C11.  Selecting a player other than the active one makes that player    *)
(* the active player and runs the Draw procedure in the same operation:    *)
(* the operation ends in Setup(0), the selected player has drawn no card   *)
(* or the front card of the deck, and the hands and decks of all other     *)
(* players are as they were.                                               *)
(***************************************************************************)
\* the step handled toggleActivePlayer for a player who was not active
SelectStep ==
  /\ reply'.type = "TOGGLE_ACTIVE_PLAYER"
  /\ reply'.payload[1] # gameState.activePlayerId
  /\ FindPlayer(gameState.players, reply'.payload[1]) # 0

\* player i keeps hand and deck, or moves the front card of the deck to the hand
DrewAtMostOne(i) ==
  LET before == gameState.players[i]
      after  == gameState'.players[i]
  IN \/ after.hand = before.hand /\ after.deck = before.deck
     \/ /\ before.deck # <<>>
        /\ after.deck = Tail(before.deck)
        /\ after.hand = Append(before.hand, Head(before.deck))

C11_SelectRunsDraw ==
  [][SelectStep =>
       LET i == FindPlayer(gameState.players, reply'.payload[1])
       IN /\ reply'.error = ""
          /\ gameState'.activePlayerId = reply'.payload[1]
          /\ gameState'.currentPhase = 0
          /\ DrewAtMostOne(i)
          /\ \A j \in PlayerIndex(gameState.players) \ {i} :
               /\ gameState'.players[j].hand = gameState.players[j].hand
               /\ gameState'.players[j].deck = gameState.players[j].deck]_vars

\* on a started match player 2, not the starting player, was selected and
\* holds the starting hand and the card of the Draw procedure
C11_Witness ==
  /\ gameState.isGameStarted
  /\ Accepted("TOGGLE_ACTIVE_PLAYER")
  /\ reply.payload[1] = Num(2)
  /\ gameState.activePlayerId = Num(2)
  /\ gameState.startingPlayerId = Num(1)
  /\ gameState.currentPhase = 0
  /\ gameState.players[2].deck = <<>>
  /\ Len(gameState.players[2].hand) = MaxTurnDeck
  /\ gameState.players[3].deck # <<>>

(***************************************************************************)
(* C12.  Selecting the active player clears activePlayerId, draws no card  *)
(* and leaves currentPhase as it was.  The round ends in that operation    *)
(* exactly when the deselected player is startingPlayerId, the phase is    *)
(* Setup(0) and the deselect variant of the round-end condition holds;     *)
(* deselecting another player, or in another phase, changes nothing but    *)
(* activePlayerId whatever the scores are.                                 *)
(***************************************************************************)
\* the step handled toggleActivePlayer for the player who was active
DeselectStep ==
  /\ reply'.type = "TOGGLE_ACTIVE_PLAYER"
  /\ reply'.payload[1] = gameState.activePlayerId
  /\ FindPlayer(gameState.players, reply'.payload[1]) # 0

C12_DeselectEndsRoundOnlyForStarter ==
  [][DeselectStep =>
       LET evaluated == /\ reply'.payload[1] = gameState.startingPlayerId
                        /\ gameState.currentPhase = 0
       IN /\ reply'.error = ""
          /\ gameState'.activePlayerId \in {Null, Undefined}
          /\ gameState'.currentPhase = gameState.currentPhase
          /\ HandsAndDecksUnchanged
          /\ RoundEndStep <=> (evaluated /\ RoundEndCondition(gameState, TRUE))
          /\ ~RoundEndStep =>
               gameState' = [gameState EXCEPT
                               !.activePlayerId = gameState'.activePlayerId]]_vars

\* player 2, not the starting player, was deselected in Setup with the
\* round's threshold reached and the round goes on
C12_Witness ==
  /\ gameState.isGameStarted
  /\ Accepted("TOGGLE_ACTIVE_PLAYER")
  /\ reply.payload[1] = Num(2)
  /\ gameState.startingPlayerId = Num(1)
  /\ gameState.activePlayerId = Undefined
  /\ gameState.currentPhase = 0
  /\ SomeScoreAtLeast(gameState, 10 + 10 * gameState.currentRound)
  /\ ~gameState.isRoundEndModalOpen
  /\ ~gameState.roundEndTriggered

(***************************************************************************)
(* C13.  startNextRound on a started match: with a match winner it sets    *)
(* currentRound and turnNumber to 1 and clears roundWinners, gameWinner    *)
(* and roundEndTriggered; without one it adds exactly 1 to currentRound    *)
(* and keeps roundWinners, gameWinner and roundEndTriggered.  Either way   *)
(* every score becomes 0 and the modal closes, while startingPlayerId,     *)
(* activePlayerId, currentPhase, hands and decks stay.  On a match that    *)
(* has not started it is rejected and changes nothing.                     *)
(***************************************************************************)
AllScoresZero(gs) == \A i \in PlayerIndex(gs.players) : gs.players[i].score = 0

\* the fields neither startNextRound nor startNewMatch may touch
TurnFieldsUnchanged ==
  /\ gameState'.startingPlayerId = gameState.startingPlayerId
  /\ gameState'.activePlayerId = gameState.activePlayerId
  /\ gameState'.currentPhase = gameState.currentPhase
  /\ Len(gameState'.players) = Len(gameState.players)
  /\ HandsAndDecksUnchanged

C13_StartNextRound ==
  [][reply'.type = "START_NEXT_ROUND" =>
       IF ~gameState.isGameStarted
       THEN reply'.error # "" /\ gameState' = gameState
       ELSE /\ reply'.error = ""
            /\ IF gameState.gameWinner # Null
               THEN /\ gameState'.currentRound = 1
                    /\ gameState'.turnNumber = 1
                    /\ gameState'.roundWinners = <<>>
                    /\ gameState'.gameWinner = Null
                    /\ ~gameState'.roundEndTriggered
               ELSE /\ gameState'.currentRound = gameState.currentRound + 1
                    /\ gameState'.roundWinners = gameState.roundWinners
                    /\ gameState'.gameWinner = gameState.gameWinner
                    /\ gameState'.roundEndTriggered = gameState.roundEndTriggered
            /\ AllScoresZero(gameState')
            /\ ~gameState'.isRoundEndModalOpen
            /\ TurnFieldsUnchanged]_vars

\* round 1 was won by player 1, and startNextRound opened round 2 with the
\* record and the marker kept, the scores at 0 and the modal closed
C13_Witness ==
  /\ gameState.isGameStarted
  /\ Accepted("START_NEXT_ROUND")
  /\ gameState.currentRound = 2
  /\ DOMAIN gameState.roundWinners = {1}
  /\ WinnerSet(gameState, 1) = {1}
  /\ gameState.gameWinner = Null
  /\ gameState.roundEndTriggered
  /\ AllScoresZero(gameState)
  /\ ~gameState.isRoundEndModalOpen
  /\ gameState.activePlayerId = Num(1)

(***************************************************************************)
(* C14.  startNewMatch, from any state of the session (any phase, any      *)
(* active player, started or not), sets currentRound and turnNumber to 1,  *)
(* empties roundWinners, clears gameWinner, roundEndTriggered and the      *)
(* modal flag, sets every score to 0, and leaves currentPhase,             *)
(* activePlayerId, startingPlayerId, isGameStarted, isReadyCheckActive,    *)
(* hands and decks as they were.                                           *)
(***************************************************************************)
C14_StartNewMatch ==
  [][reply'.type = "START_NEW_MATCH" =>
       /\ reply'.error = ""
       /\ gameState'.currentRound = 1
       /\ gameState'.turnNumber = 1
       /\ gameState'.roundWinners = <<>>
       /\ gameState'.gameWinner = Null
       /\ ~gameState'.roundEndTriggered
       /\ ~gameState'.isRoundEndModalOpen
       /\ AllScoresZero(gameState')
       /\ TurnFieldsUnchanged
       /\ gameState'.isGameStarted = gameState.isGameStarted
       /\ gameState'.isReadyCheckActive = gameState.isReadyCheckActive]_vars

\* startNewMatch was handled in the Commit phase with player 2 active and
\* player 1 the starting player
C14_Witness ==
  /\ gameState.isGameStarted
  /\ Accepted("START_NEW_MATCH")
  /\ gameState.currentPhase = 2
  /\ gameState.activePlayerId = Num(2)
  /\ gameState.startingPlayerId = Num(1)
  /\ gameState.currentRound = 1
  /\ gameState.roundWinners = <<>>
  /\ AllScoresZero(gameState)

(***************************************************************************)
(* C15.  When playerReady marks a player ready, the match starts in that   *)
(* operation if and only if every connected player who is not a dummy is   *)
(* ready and there is at least one such player.  The match never becomes   *)
(* started while a connected non-dummy player is not ready, and            *)
(* playerReady for an unknown player, or with the ready check inactive,    *)
(* changes nothing.                                                        *)
(***************************************************************************)
\* the connected players of gs who are not dummies
RealConnected(gs) ==
  {i \in PlayerIndex(gs.players) :
     ~gs.players[i].isDummy /\ ~gs.players[i].isDisconnected}

AllRealConnectedReady(gs) ==
  /\ RealConnected(gs) # {}
  /\ \A i \in RealConnected(gs) : gs.players[i].isReady

C15_StartIffAllRealReady ==
  [][/\ reply'.type = "PLAYER_READY" =>
          LET i == FindPlayer(gameState.players, reply'.payload[1])
          IN IF ~gameState.isReadyCheckActive \/ i = 0
             THEN gameState' = gameState
             ELSE /\ reply'.error = ""
                  /\ gameState'.players[i].isReady
                  /\ \A j \in PlayerIndex(gameState.players) \ {i} :
                       gameState'.players[j].isReady = gameState.players[j].isReady
                  /\ gameState'.isGameStarted <=> AllRealConnectedReady(gameState')
     /\ (~gameState.isGameStarted /\ gameState'.isGameStarted) =>
          /\ reply'.type = "PLAYER_READY"
          /\ AllRealConnectedReady(gameState')]_vars

\* the host alone made the match start: player 2 is disconnected and not
\* ready, the dummy is not ready
C15_Witness ==
  /\ gameState.isGameStarted
  /\ Accepted("PLAYER_READY")
  /\ reply.payload[1] = Num(1)
  /\ gameState.players[1].isReady
  /\ gameState.players[2].isDisconnected /\ ~gameState.players[2].isReady
  /\ gameState.players[3].isDummy /\ ~gameState.players[3].isReady

(***************************************************************************)
(* C16.  playerReady on a match that has started is silently ignored: no   *)
(* ERROR is sent to the caller and the state is as it was.                 *)
(***************************************************************************)
C16_ReadyAfterStartIgnored ==
  [][( gameState.isGameStarted /\ reply'.type = "PLAYER_READY" )
     => /\ reply'.error = ""
        /\ gameState' = gameState]_vars

(***************************************************************************)
(* C17.  At match start every player with an empty hand for whom drawing   *)
(* applies receives exactly min(6, deck size) cards, taken from the front  *)
(* of the deck and appended to the hand in deck order: 6 cards from a deck *)
(* of 6 or more, the whole deck otherwise.  The starting player may hold   *)
(* one card more, the card of the Draw procedure that ends the start.      *)
(***************************************************************************)
\* the step in which the match starts
StartStep == ~gameState.isGameStarted /\ gameState'.isGameStarted

\* drawing applies to player i: a real player has not switched auto-draw
\* off, for a dummy the host (player id 1) has switched it on
AutoDrawApplies(gs, i) ==
  IF gs.players[i].isDummy
  THEN \E h \in PlayerIndex(gs.players) :
         gs.players[h].id = 1 /\ gs.players[h].autoDrawEnabled = Bool(TRUE)
  ELSE gs.players[i].autoDrawEnabled # Bool(FALSE)

\* player i has an empty hand before the start and drawing applies
StartingHandDue(i) ==
  gameState.players[i].hand = <<>> /\ AutoDrawApplies(gameState, i)

Min(a, b) == IF a <= b THEN a ELSE b

\* player i holds the first n cards of the deck it had, the rest is its deck
TookFromFront(i, n) ==
  LET deck == gameState.players[i].deck
  IN /\ n <= Len(deck)
     /\ gameState'.players[i].hand = SubSeq(deck, 1, n)
     /\ gameState'.players[i].deck = SubSeq(deck, n + 1, Len(deck))

C17_StartingHandSize ==
  [][StartStep =>
       \A i \in PlayerIndex(gameState.players) :
         StartingHandDue(i) =>
           LET m == Min(6, Len(gameState.players[i].deck))
           IN \/ TookFromFront(i, m)
              \/ /\ Num(gameState.players[i].id) = gameState'.startingPlayerId
                 /\ TookFromFront(i, m + 1)]_vars

(***************************************************************************)
(* C18.  Right after the match starts isReadyCheckActive is false,         *)
(* isGameStarted is true, startingPlayerId equals activePlayerId and is    *)
(* the id of a connected player (a dummy is allowed), currentPhase is      *)
(* Setup(0), and of the players who had an empty hand, for whom drawing    *)
(* applies and whose deck held at least 7 cards, the starting player holds *)
(* exactly 7 cards and every other one exactly 6.                          *)
(***************************************************************************)
C18_StateAfterStart ==
  [][StartStep =>
       /\ ~gameState'.isReadyCheckActive
       /\ gameState'.isGameStarted
       /\ gameState'.startingPlayerId = gameState'.activePlayerId
       /\ \E i \in PlayerIndex(gameState.players) :
            /\ ~gameState.players[i].isDisconnected
            /\ Num(gameState.players[i].id) = gameState'.startingPlayerId
       /\ gameState'.currentPhase = 0
       /\ \A i \in PlayerIndex(gameState.players) :
            ( StartingHandDue(i) /\ Len(gameState.players[i].deck) >= 7 ) =>
              Len(gameState'.players[i].hand) =
                IF Num(gameState.players[i].id) = gameState'.startingPlayerId
                THEN 7 ELSE 6]_vars

(***************************************************************************)
(* C19.  The start is one-way: once isGameStarted is true it stays true    *)
(* under every operation, startReadyCheck is rejected from then on, and    *)
(* the match-start sequence runs at most once: a playerReady that arrives  *)
(* after the start changes nothing, so the starting player is chosen once  *)
(* and the starting hands are dealt once.                                  *)
(***************************************************************************)
C19_StartIsOneWay ==
  [][gameState.isGameStarted =>
       /\ gameState'.isGameStarted
       /\ ~gameState'.isReadyCheckActive
       /\ gameState'.startingPlayerId = gameState.startingPlayerId
       /\ reply'.type = "START_READY_CHECK" =>
            reply'.error # "" /\ gameState' = gameState
       /\ reply'.type = "PLAYER_READY" => gameState' = gameState]_vars

\* the match has started and a further playerReady of player 1 was handled
C19_Witness ==
  /\ gameState.isGameStarted
  /\ reply.type = "PLAYER_READY"
  /\ reply.payload[1] = Num(1)
  /\ reply.error # ""
  /\ gameState.startingPlayerId = Num(2)

(***************************************************************************)
(* C20.  startReadyCheck is rejected without a change if the match has     *)
(* started; otherwise it sets every ready flag to false and                *)
(* isReadyCheckActive to true.  cancelReadyCheck changes nothing if the    *)
(* ready check is inactive; otherwise it sets isReadyCheckActive to false  *)
(* and every ready flag to false.  So nobody is ready when a ready check   *)
(* begins or after it was cancelled.                                       *)
(***************************************************************************)
NobodyReady(gs) == \A i \in PlayerIndex(gs.players) : ~gs.players[i].isReady

\* gs with every player's ready flag false and the ready check set to active
WithReadyCheck(gs, active) ==
  [gs EXCEPT !.isReadyCheckActive = active,
             !.players = [i \in PlayerIndex(gs.players) |->
                            [gs.players[i] EXCEPT !.isReady = FALSE]]]

C20_ReadyCheckStartCancel ==
  [][/\ reply'.type = "START_READY_CHECK" =>
          IF gameState.isGameStarted
          THEN reply'.error # "" /\ gameState' = gameState
          ELSE reply'.error = "" /\ gameState' = WithReadyCheck(gameState, TRUE)
     /\ reply'.type = "CANCEL_READY_CHECK" =>
          IF ~gameState.isReadyCheckActive
          THEN gameState' = gameState
          ELSE reply'.error = "" /\ gameState' = WithReadyCheck(gameState, FALSE)
     /\ (~gameState'.isGameStarted /\ ~gameState'.isReadyCheckActive) =>
          NobodyReady(gameState')]_vars

\* startReadyCheck was accepted on a match that has not started: the ready
\* check is active and nobody is ready
C20_Witness ==
  /\ ~gameState.isGameStarted
  /\ gameState.isReadyCheckActive
  /\ Accepted("START_READY_CHECK")
  /\ NobodyReady(gameState)

(***************************************************************************)
(* Vocabulary of the board properties.  The conditions are read off the    *)
(* board of gameState, the input of a recalculation; Recomputed is the     *)
(* board that recalculateBoardStatuses returns for gameState.              *)
(***************************************************************************)
BoardCells == (0..(GRID_MAX_SIZE - 1)) \X (0..(GRID_MAX_SIZE - 1))

InputCard(pos) == gameState.board[pos[1]][pos[2]]

Recomputed == recalculateBoardStatuses(gameState).newBoard

CardOn(board, pos) == board[pos[1]][pos[2]]

\* the board is the result of a recalculation
JustRecalculated == reply.type = "RECALCULATE"

\* the cells next to pos: above, below, to the left and to the right
NeighbourCells(pos) ==
  {<<pos[1] - 1, pos[2]>>, <<pos[1] + 1, pos[2]>>,
   <<pos[1], pos[2] - 1>>, <<pos[1], pos[2] + 1>>} \cap BoardCells

\* the cells of the row and of the column of pos
LineCells(pos) ==
  {<<pos[1], c>> : c \in 0..(GRID_MAX_SIZE - 1)}
    \cup {<<r, pos[2]>> : r \in 0..(GRID_MAX_SIZE - 1)}

IsStunned(card) == \E k \in DOMAIN card.statuses : card.statuses[k].type = "Stun"

\* an owned card that lies face up
FaceUpOwned(card) ==
  card # Null /\ card.ownerId # Undefined /\ ~card.isFaceDown

\* an owned card that lies face up and is not stunned
Eligible(card) == FaceUpOwned(card) /\ ~IsStunned(card)

\* both owners have a defined team id, and it is the same
SameTeam(owner, other) ==
  \E i, j \in DOMAIN gameState.players :
    /\ Num(gameState.players[i].id) = owner
    /\ Num(gameState.players[j].id) = other
    /\ gameState.players[i].teamId # Undefined
    /\ gameState.players[i].teamId = gameState.players[j].teamId

Friendly(owner, other) == owner = other \/ SameTeam(owner, other)

\* the cells of the eligible orthogonal neighbours of the card at pos that
\* are friendly to it, and of those that are not
FriendlyNeighbours(pos) ==
  {q \in NeighbourCells(pos) :
     /\ Eligible(InputCard(q))
     /\ Friendly(InputCard(pos).ownerId, InputCard(q).ownerId)}

EnemyNeighbours(pos) ==
  {q \in NeighbourCells(pos) :
     /\ Eligible(InputCard(q))
     /\ ~Friendly(InputCard(pos).ownerId, InputCard(q).ownerId)}

\* the cells in the row or the column of pos that hold a face-up,
\* non-stunned hero of that template and that owner
HeroesInLine(pos, baseId, owner) ==
  {q \in LineCells(pos) :
     /\ Eligible(InputCard(q))
     /\ InputCard(q).baseId = baseId
     /\ InputCard(q).ownerId = owner}

CarriesStatus(card, type) ==
  \E k \in DOMAIN card.statuses : card.statuses[k].type = type

\* card.bonusPower || 0
BonusPowerOf(card) ==
  IF card.bonusPower = Undefined THEN 0 ELSE card.bonusPower.v

\* the statuses of a card that are neither Support nor Threat, in their order
PersistentStatuses(card) ==
  LET IsPersistent(st) == st.type \notin {"Support", "Threat"}
  IN SelectSeq(card.statuses, IsPersistent)

(***************************************************************************)
(* C21.  recompute is idempotent: on a game state whose board is the       *)
(* result of a previous recompute, and nothing else changed, recompute     *)
(* returns that same board again.                                          *)
(***************************************************************************)
C21_Idempotent == JustRecalculated => Recomputed = gameState.board

\* the board is a recompute result on which a card has a bonus power of 1
\* and a card carries Support
C21_Witness ==
  /\ JustRecalculated
  /\ \E pos \in BoardCells :
       InputCard(pos) # Null /\ InputCard(pos).bonusPower = Num(1)
  /\ \E pos \in BoardCells :
       InputCard(pos) # Null /\ CarriesStatus(InputCard(pos), "Support")

(***************************************************************************)
(* C22.  recompute does not change the board it is given, and the board it *)
(* returns has the same cards on the same cells with the same id, baseId,  *)
(* owner, face-down flag and persistent statuses: only Support, Threat and *)
(* bonusPower differ.                                                      *)
(***************************************************************************)
C22_InputKeptAndFrame ==
  LET result == recalculateBoardStatuses(gameState)
  IN /\ result.board = gameState.board
     /\ \A pos \in BoardCells :
          LET in == InputCard(pos)
              out == CardOn(result.newBoard, pos)
          IN IF in = Null THEN out = Null
             ELSE /\ out # Null
                  /\ out.id = in.id
                  /\ out.baseId = in.baseId
                  /\ out.ownerId = in.ownerId
                  /\ out.isFaceDown = in.isFaceDown
                  /\ PersistentStatuses(out) = PersistentStatuses(in)

\* the board is a recompute result on which a stunned card carries Threat
C22_Witness ==
  /\ JustRecalculated
  /\ \E pos \in BoardCells :
       /\ InputCard(pos) # Null
       /\ IsStunned(InputCard(pos))
       /\ CarriesStatus(InputCard(pos), "Threat")

(***************************************************************************)
(* C23.  After recompute a card carries Support if and only if             *)
(* (a) it is owned and face up and has an orthogonal neighbour that is     *)
(*     owned, face up, not stunned and friendly (same owner, or same team  *)
(*     when both owners have a defined team id), or                        *)
(* (b) it is a face-up card of the owner of a face-up, non-stunned         *)
(*     Reverend that lies in its row or its column; the card may be that   *)
(*     Reverend itself.                                                    *)
(***************************************************************************)
SupportByNeighbour(pos) ==
  FaceUpOwned(InputCard(pos)) /\ FriendlyNeighbours(pos) # {}

SupportByReverend(pos) ==
  /\ FaceUpOwned(InputCard(pos))
  /\ HeroesInLine(pos, HERO_REVEREND_ID, InputCard(pos).ownerId) # {}

SupportByOtherReverend(pos) ==
  /\ FaceUpOwned(InputCard(pos))
  /\ HeroesInLine(pos, HERO_REVEREND_ID, InputCard(pos).ownerId) \ {pos} # {}

C23_SupportIff ==
  LET out == Recomputed
  IN \A pos \in BoardCells :
       InputCard(pos) # Null =>
         (CarriesStatus(CardOn(out, pos), "Support")
            <=> SupportByNeighbour(pos) \/ SupportByReverend(pos))

\* C23 as it was stated: in (b) the card is another card than the hero
C23_SupportIffOtherThanHero ==
  LET out == Recomputed
  IN \A pos \in BoardCells :
       InputCard(pos) # Null =>
         (CarriesStatus(CardOn(out, pos), "Support")
            <=> SupportByNeighbour(pos) \/ SupportByOtherReverend(pos))

\* the board is a recompute result on which a card has Support by (b) only:
\* it has no friendly neighbour, and the Reverend of its owner lies two
\* cells away in its line
C23_Witness ==
  /\ JustRecalculated
  /\ \E pos \in BoardCells :
       /\ InputCard(pos) # Null
       /\ InputCard(pos).baseId = "unit"
       /\ CarriesStatus(InputCard(pos), "Support")
       /\ ~SupportByNeighbour(pos)
       /\ SupportByOtherReverend(pos)

(***************************************************************************)
(* C24.  After recompute a card carries Threat if and only if it is owned  *)
(* and face up and                                                         *)
(* (A) a single enemy player owns at least two of its eligible (owned,     *)
(*     face-up, non-stunned) orthogonal neighbours, or                     *)
(* (B) its cell lies inside the active region on the outer edge of that    *)
(*     region (row or column equal to offset or offset + activeGridSize -  *)
(*     1, offset = floor((7 - activeGridSize) / 2)) and it has at least    *)
(*     one eligible enemy neighbour.                                       *)
(* So a card outside the active region or in its interior with fewer than  *)
(* two neighbours of any single enemy, a face-down card and an unowned     *)
(* card never carry Threat.                                                *)
(***************************************************************************)
Pincered(pos) ==
  \E q1, q2 \in EnemyNeighbours(pos) :
    q1 # q2 /\ InputCard(q1).ownerId = InputCard(q2).ownerId

ActiveOffset == (GRID_MAX_SIZE - gameState.activeGridSize) \div 2

ActiveIndexes == ActiveOffset..(ActiveOffset + gameState.activeGridSize - 1)

OnActiveEdge(pos) ==
  /\ pos[1] \in ActiveIndexes
  /\ pos[2] \in ActiveIndexes
  /\ \/ pos[1] \in {ActiveOffset, ActiveOffset + gameState.activeGridSize - 1}
     \/ pos[2] \in {ActiveOffset, ActiveOffset + gameState.activeGridSize - 1}

C24_ThreatIff ==
  LET out == Recomputed
  IN \A pos \in BoardCells :
       InputCard(pos) # Null =>
         (CarriesStatus(CardOn(out, pos), "Threat")
            <=> /\ FaceUpOwned(InputCard(pos))
                /\ \/ Pincered(pos)
                   \/ OnActiveEdge(pos) /\ EnemyNeighbours(pos) # {})

\* the board is a recompute result on which a card on the edge of the
\* active region has Threat from one enemy neighbour, and that neighbour,
\* outside the active region, has none
C24_Witness ==
  /\ JustRecalculated
  /\ \E pos \in BoardCells :
       /\ InputCard(pos) # Null
       /\ CarriesStatus(InputCard(pos), "Threat")
       /\ ~Pincered(pos)
       /\ \E q \in EnemyNeighbours(pos) :
            /\ ~OnActiveEdge(q)
            /\ pos \in EnemyNeighbours(q)
            /\ ~CarriesStatus(InputCard(q), "Threat")

(***************************************************************************)
(* C25.  After recompute the bonusPower (absent counts as 0) of a face-up  *)
(* card of player P that is not a Mr. Pearl card is 1 if a face-up,        *)
(* non-stunned Mr. Pearl of P lies in its row, plus 1 if one lies in its   *)
(* column, however many of them share the line.  Every Mr. Pearl card,     *)
(* every face-down card and every card without such a hero of its own      *)
(* owner in its lines has 0.                                               *)
(***************************************************************************)
PearlsInRow(pos) ==
  {q \in HeroesInLine(pos, HERO_MR_PEARL_ID, InputCard(pos).ownerId) :
     q[1] = pos[1]}

PearlsInColumn(pos) ==
  {q \in HeroesInLine(pos, HERO_MR_PEARL_ID, InputCard(pos).ownerId) :
     q[2] = pos[2]}

ExpectedBonusPower(pos) ==
  IF FaceUpOwned(InputCard(pos)) /\ InputCard(pos).baseId # HERO_MR_PEARL_ID
  THEN (IF PearlsInRow(pos) # {} THEN 1 ELSE 0)
       + (IF PearlsInColumn(pos) # {} THEN 1 ELSE 0)
  ELSE 0

C25_BonusPower ==
  LET out == Recomputed
  IN \A pos \in BoardCells :
       InputCard(pos) # Null =>
         BonusPowerOf(CardOn(out, pos)) = ExpectedBonusPower(pos)

\* the board is a recompute result on which a card with two Mr. Pearls of
\* its owner in its row has a bonus power of 1, and both heroes have none
C25_Witness ==
  /\ JustRecalculated
  /\ \E pos \in BoardCells :
       /\ InputCard(pos) # Null
       /\ InputCard(pos).baseId = "unit"
       /\ InputCard(pos).bonusPower = Num(1)
       /\ \E q1, q2 \in PearlsInRow(pos) :
            /\ q1 # q2
            /\ BonusPowerOf(InputCard(q1)) = 0
            /\ BonusPowerOf(InputCard(q2)) = 0

(***************************************************************************)
(* C26.  A face-up, non-stunned Reverend that has no eligible friendly     *)
(* orthogonal neighbour and shares its row and its column with no other    *)
(* Reverend of its owner carries Support after recompute: the Reverend     *)
(* grants Support to itself, in the name of its owner.                     *)
(***************************************************************************)
LoneReverend(pos) ==
  /\ Eligible(InputCard(pos))
  /\ InputCard(pos).baseId = HERO_REVEREND_ID
  /\ FriendlyNeighbours(pos) = {}
  /\ HeroesInLine(pos, HERO_REVEREND_ID, InputCard(pos).ownerId) = {pos}

C26_ReverendSupportsItself ==
  LET out == Recomputed
  IN \A pos \in BoardCells :
       (InputCard(pos) # Null /\ LoneReverend(pos)) =>
         \E k \in DOMAIN CardOn(out, pos).statuses :
           CardOn(out, pos).statuses[k] =
             [type |-> "Support", addedByPlayerId |-> InputCard(pos).ownerId]

\* C26 as it was stated: such a Reverend carries no Support
C26_ReverendNeverSupportsItself ==
  LET out == Recomputed
  IN \A pos \in BoardCells :
       (InputCard(pos) # Null /\ LoneReverend(pos)) =>
         ~CarriesStatus(CardOn(out, pos), "Support")

\* the board is a recompute result with a Reverend as its only card, and
\* the Reverend carries Support
C26_Witness ==
  /\ JustRecalculated
  /\ \E pos \in BoardCells :
       /\ InputCard(pos) # Null
       /\ LoneReverend(pos)
       /\ CarriesStatus(InputCard(pos), "Support")
       /\ \A q \in BoardCells \ {pos} : InputCard(q) = Null

(***************************************************************************)
(* C27.  The board that recompute returns depends on the layout, the       *)
(* owners, the face-down flags, the persistent statuses, the teams and     *)
(* activeGridSize only: the game state without any Support, Threat and     *)
(* bonusPower on its cards and with another currentPhase, activePlayerId   *)
(* and currentRound gives the same board, so no Support, Threat or         *)
(* bonusPower of the input is in the output unless it is derived again.    *)
(***************************************************************************)
WithoutDerived(board) ==
  [r \in DOMAIN board |-> [c \in DOMAIN board[r] |->
     IF board[r][c] = Null THEN Null
     ELSE [board[r][c] EXCEPT !.statuses = PersistentStatuses(board[r][c]),
                              !.bonusPower = Undefined]]]

\* gameState with the same layout, owners, flags, persistent statuses,
\* teams and activeGridSize, and everything else different
SameGroundTruth ==
  [gameState EXCEPT !.board = WithoutDerived(gameState.board),
                    !.currentPhase = 3,
                    !.activePlayerId = Num(2),
                    !.currentRound = 2]

C27_DerivedFromGroundTruth ==
  recalculateBoardStatuses(SameGroundTruth).newBoard = Recomputed

\* after a card left the board another card still has the bonus power that
\* the card gave it, and recompute returns the board without it
C27_Witness ==
  /\ reply.type = "REMOVE_CARD"
  /\ LET out == Recomputed
     IN \E pos \in BoardCells :
          /\ InputCard(pos) # Null
          /\ InputCard(pos).bonusPower = Num(1)
          /\ BonusPowerOf(CardOn(out, pos)) = 0

(***************************************************************************)
(* C28.  Every Draw procedure finishes by setting the phase to Setup(0)    *)
(* and evaluating the round end: when the starting player is selected on a *)
(* started match while the modal is closed and the highest score has       *)
(* reached the threshold of the round, the operation leaves the phase at 0 *)
(* and the round ended (modal open), whether or not a card was drawn and   *)
(* also when the deck of that player is empty.                             *)
(***************************************************************************)
C28_DrawEndsWithRoundEndCheck ==
  [][( /\ SelectStep
       /\ reply'.payload[1] = gameState.startingPlayerId
       /\ gameState.isGameStarted
       /\ ~gameState.isRoundEndModalOpen
       /\ SomeScoreAtLeast(gameState, 10 + 10 * gameState.currentRound) )
     => /\ gameState'.currentPhase = 0
        /\ gameState'.isRoundEndModalOpen
        /\ gameState'.roundEndTriggered]_vars

(***************************************************************************)
(* C29.  The Draw procedure moves cards as follows.  If the active player  *)
(* exists, has a non-empty deck and shouldDraw is true, the card at the    *)
(* front of the deck is removed and appended at the end of that player's   *)
(* hand, and the rest of the deck keeps its order; in every other case the *)
(* hand and the deck of that player are unchanged.  No other player's hand *)
(* or deck changes.  The Draw procedure runs when a player who is not      *)
(* active is selected.                                                     *)
(***************************************************************************)
C29_DrawMovesFrontCard ==
  [][SelectStep =>
       LET i == FindPlayer(gameState.players, reply'.payload[1])
           before == gameState.players[i]
           after == gameState'.players[i]
       IN /\ IF before.deck # <<>> /\ AutoDrawApplies(gameState, i)
             THEN /\ after.hand = before.hand \o <<before.deck[1]>>
                  /\ after.deck = SubSeq(before.deck, 2, Len(before.deck))
                  /\ Len(after.hand) = Len(before.hand) + 1
                  /\ Len(after.deck) = Len(before.deck) - 1
             ELSE after.hand = before.hand /\ after.deck = before.deck
          /\ \A j \in PlayerIndex(gameState.players) \ {i} :
               /\ gameState'.players[j].hand = gameState.players[j].hand
               /\ gameState'.players[j].deck = gameState.players[j].deck]_vars

\* the dummy was selected with the host's auto-draw switched on and a full
\* deck: it holds the front card of its deck and the rest is its deck
C29_Witness ==
  /\ Accepted("TOGGLE_ACTIVE_PLAYER")
  /\ gameState.activePlayerId = Num(3)
  /\ gameState.players[1].autoDrawEnabled = Bool(TRUE)
  /\ gameState.players[3].hand = <<301>>
  /\ Len(gameState.players[3].deck) = MaxTurnDeck - 1

(***************************************************************************)
(* C30.  shouldDraw is resolved in the same way at the match start (the    *)
(* starting hands) and in the Draw procedure: for a dummy it is the        *)
(* auto-draw preference of the host, player 1, so a dummy draws if and     *)
(* only if the host has auto-draw switched on; for a real player it is     *)
(* true unless the player's own preference is false.  For every player     *)
(* kind, own preference and host preference both sites decide alike.       *)
(***************************************************************************)
C30_SameShouldDraw ==
  \A i \in PlayerIndex(gameState.players) :
    /\ StartingHandShouldDraw(gameState.players, i)
         <=> DrawPhaseShouldDraw(gameState.players, i)
    /\ DrawPhaseShouldDraw(gameState.players, i)
         <=> AutoDrawApplies(gameState, i)

\* the match started with auto-draw switched on by the host and switched
\* off by the second player: the dummy holds a starting hand, the second
\* player holds nothing
C30_Witness ==
  /\ gameState.isGameStarted
  /\ Accepted("PLAYER_READY")
  /\ gameState.players[1].autoDrawEnabled = Bool(TRUE)
  /\ gameState.players[2].autoDrawEnabled = Bool(FALSE)
  /\ gameState.players[3].isDummy
  /\ gameState.players[3].hand # <<>>
  /\ gameState.players[2].hand = <<>>

(***************************************************************************)
(* C31.  At the match start a player who already holds a card is skipped   *)
(* by the starting-hand distribution: hand and deck are as they were,      *)
(* except that the starting player may have drawn the one card of the Draw *)
(* procedure that ends the start.                                          *)
(***************************************************************************)
C31_HolderSkipped ==
  [][StartStep =>
       \A i \in PlayerIndex(gameState.players) :
         gameState.players[i].hand # <<>> =>
           LET before == gameState.players[i]
               after == gameState'.players[i]
           IN \/ after.hand = before.hand /\ after.deck = before.deck
              \/ /\ Num(before.id) = gameState'.startingPlayerId
                 /\ before.deck # <<>>
                 /\ after.hand = Append(before.hand, Head(before.deck))
                 /\ after.deck = Tail(before.deck)]_vars

\* the match started; the second player, for whom drawing applies and who is
\* not the starting player, holds the single card it held before and the
\* rest of its deck, while the host holds a starting hand of 6
C31_Witness ==
  /\ gameState.isGameStarted
  /\ Accepted("PLAYER_READY")
  /\ gameState.startingPlayerId = Num(1)
  /\ gameState.players[2].autoDrawEnabled # Bool(FALSE)
  /\ gameState.players[2].hand = <<201>>
  /\ Len(gameState.players[2].deck) = MaxDealDeck - 1
  /\ Len(gameState.players[1].hand) >= 6

(***************************************************************************)
(* C32.  When Threat is granted under condition B (no enemy owns two       *)
(* eligible neighbours, the card lies on the edge of the active region)    *)
(* and several enemy players own eligible neighbours of the card, the      *)
(* Threat is attributed to the enemy player with the lowest player id      *)
(* among them.                                                             *)
(***************************************************************************)
\* the owners of the eligible enemy neighbours of the card at pos
EnemyOwners(pos) == {InputCard(q).ownerId : q \in EnemyNeighbours(pos)}

\* the card at pos gets Threat under condition B with several enemies
BorderPressureBySeveral(pos) ==
  /\ FaceUpOwned(InputCard(pos))
  /\ ~Pincered(pos)
  /\ OnActiveEdge(pos)
  /\ Cardinality(EnemyOwners(pos)) >= 2

LowestEnemy(pos) ==
  CHOOSE owner \in EnemyOwners(pos) :
    \A other \in EnemyOwners(pos) : owner.v <= other.v

\* the neighbour cells in the order of the scan: up, down, left, right
ScanOrder(pos) ==
  << <<pos[1] - 1, pos[2]>>, <<pos[1] + 1, pos[2]>>,
     <<pos[1], pos[2] - 1>>, <<pos[1], pos[2] + 1>> >>

\* the owner of the first eligible enemy neighbour in the order of the scan
FirstEnemyInScan(pos) ==
  LET hits == {k \in 1..4 : ScanOrder(pos)[k] \in EnemyNeighbours(pos)}
      first == CHOOSE k \in hits : \A other \in hits : k <= other
  IN InputCard(ScanOrder(pos)[first]).ownerId

\* the step is a recompute: gameState holds the board passed in, gameState'
\* the board returned
RecalculateStep == reply'.type = "RECALCULATE"

\* the players to whom the Threat statuses of a card are attributed
ThreatAttributions(card) ==
  {card.statuses[k].addedByPlayerId :
     k \in {n \in DOMAIN card.statuses : card.statuses[n].type = "Threat"}}

Pinners(pos) ==
  {owner \in EnemyOwners(pos) :
     Cardinality({q \in EnemyNeighbours(pos) :
                    InputCard(q).ownerId = owner}) >= 2}

\* the players to whom the Support statuses of a card are attributed
SupportAttributions(card) ==
  {card.statuses[k].addedByPlayerId :
     k \in {n \in DOMAIN card.statuses : card.statuses[n].type = "Support"}}

C33_Attribution ==
  [][RecalculateStep =>
       LET out == gameState'.board
       IN \A pos \in BoardCells :
            InputCard(pos) # Null =>
              /\ ThreatAttributions(CardOn(out, pos)) \subseteq EnemyOwners(pos)
              /\ (FaceUpOwned(InputCard(pos)) /\ Pinners(pos) # {}) =>
                   /\ ThreatAttributions(CardOn(out, pos)) # {}
                   /\ ThreatAttributions(CardOn(out, pos)) \subseteq Pinners(pos)
              /\ SupportAttributions(CardOn(out, pos))
                   \subseteq {InputCard(pos).ownerId}]_vars

\* the board is a recompute result on which a card has two neighbours of
\* player 4 and one of player 3, Threat attributed to player 4, and Support
\* attributed to its owner
C33_Witness ==
  /\ JustRecalculated
  /\ \E pos \in BoardCells :
       /\ InputCard(pos) # Null
       /\ EnemyOwners(pos) = {Num(3), Num(4)}
       /\ Pinners(pos) = {Num(4)}
       /\ ThreatAttributions(InputCard(pos)) = {Num(4)}
       /\ SupportAttributions(InputCard(pos)) = {InputCard(pos).ownerId}

(***************************************************************************)
(* C34.  A face-down or stunned card is ignored as a neighbour and as a    *)
(* hero: recompute of the board without the face-down and the stunned      *)
(* cards gives every face-up, owned, non-stunned card the same statuses    *)
(* and the same bonus power as recompute of the board itself.  A stunned   *)
(* face-up owned card still receives: Support from an eligible friendly    *)
(* neighbour or an eligible Reverend of its owner in its lines, Threat     *)
(* from a pincer or from an eligible enemy neighbour on the active edge,   *)
(* and bonus power from an eligible Mr. Pearl of its owner in its lines.   *)
(***************************************************************************)
\* a card that lies face down or carries Stun
Ineligible(card) == card # Null /\ (card.isFaceDown \/ IsStunned(card))

\* the game state without the face-down and the stunned cards
WithoutIneligible ==
  [gameState EXCEPT !.board =
     [r \in DOMAIN gameState.board |->
        [c \in DOMAIN gameState.board[r] |->
           IF Ineligible(gameState.board[r][c]) THEN Null
           ELSE gameState.board[r][c]]]]

C34_IneligibleIgnored ==
  [][RecalculateStep =>
       LET out == gameState'.board
           outWithout == recalculateBoardStatuses(WithoutIneligible).newBoard
       IN \A pos \in BoardCells :
            /\ Eligible(InputCard(pos)) =>
                 CardOn(out, pos) = CardOn(outWithout, pos)
            /\ (FaceUpOwned(InputCard(pos)) /\ IsStunned(InputCard(pos))) =>
                 /\ (\/ FriendlyNeighbours(pos) # {}
                     \/ HeroesInLine(pos, HERO_REVEREND_ID,
                                     InputCard(pos).ownerId) # {})
                      => CarriesStatus(CardOn(out, pos), "Support")
                 /\ (\/ Pincered(pos)
                     \/ OnActiveEdge(pos) /\ EnemyNeighbours(pos) # {})
                      => CarriesStatus(CardOn(out, pos), "Threat")
                 /\ (/\ InputCard(pos).baseId # HERO_MR_PEARL_ID
                     /\ HeroesInLine(pos, HERO_MR_PEARL_ID,
                                     InputCard(pos).ownerId) # {})
                      => BonusPowerOf(CardOn(out, pos)) >= 1]_vars

\* the board is a recompute result on which an eligible card without Support
\* has a stunned or face-down neighbour of its own owner, and a stunned card
\* carries Support and Threat
C34_Witness ==
  /\ JustRecalculated
  /\ \E pos \in BoardCells :
       /\ Eligible(InputCard(pos))
       /\ ~CarriesStatus(InputCard(pos), "Support")
       /\ \E q \in NeighbourCells(pos) :
            /\ Ineligible(InputCard(q))
            /\ InputCard(q).ownerId = InputCard(pos).ownerId
  /\ \E pos \in BoardCells :
       /\ FaceUpOwned(InputCard(pos))
       /\ IsStunned(InputCard(pos))
       /\ CarriesStatus(InputCard(pos), "Support")
       /\ CarriesStatus(InputCard(pos), "Threat")

(***************************************************************************)
(* C35.  After recompute every card carries at most one Support status and *)
(* at most one Threat status, whatever the number of triggers that apply   *)
(* to it (friendly neighbours, Reverends in its row and in its column,     *)
(* pincer, border pressure).  A card can carry both at once (the witness). *)
(***************************************************************************)
\* the number of statuses of that type on the card
StatusCount(card, type) ==
  Cardinality({k \in DOMAIN card.statuses : card.statuses[k].type = type})

C35_AtMostOneOfEach ==
  [][RecalculateStep =>
       LET out == gameState'.board
       IN \A pos \in BoardCells :
            InputCard(pos) # Null =>
              /\ StatusCount(CardOn(out, pos), "Support") <= 1
              /\ StatusCount(CardOn(out, pos), "Threat") <= 1]_vars

\* the board is a recompute result on which a card has a friendly neighbour
\* and a Reverend of its owner in its line, is pincered and lies on the
\* active edge with an enemy neighbour, and carries one Support and one Threat
C35_Witness ==
  /\ JustRecalculated
  /\ \E pos \in BoardCells :
       /\ FaceUpOwned(InputCard(pos))
       /\ FriendlyNeighbours(pos) # {}
       /\ HeroesInLine(pos, HERO_REVEREND_ID, InputCard(pos).ownerId) # {}
       /\ Pincered(pos)
       /\ OnActiveEdge(pos)
       /\ StatusCount(InputCard(pos), "Support") = 1
       /\ StatusCount(InputCard(pos), "Threat") = 1

(***************************************************************************)
(* C36.  A round only advances after it has ended: a step that increments  *)
(* currentRound starts in a state where roundWinners has an entry for      *)
(* currentRound and the round-end modal is open, and after it every round  *)
(* number below currentRound has a recorded winner set.                    *)
(***************************************************************************)
C36_RoundAdvancesAfterEnd ==
  [][gameState'.currentRound > gameState.currentRound =>
       /\ gameState.currentRound \in DOMAIN gameState.roundWinners
       /\ gameState.isRoundEndModalOpen
       /\ \A r \in 1..(gameState'.currentRound - 1) :
            r \in DOMAIN gameState'.roundWinners]_vars

(***************************************************************************)
(* C38.  isReadyCheckActive and isGameStarted are never both true, under   *)
(* any sequence of startReadyCheck, cancelReadyCheck, playerReady and      *)
(* phase and round operations on a session created with both false.        *)
(***************************************************************************)
C38_NeverReadyCheckAndStarted ==
  ~(gameState.isReadyCheckActive /\ gameState.isGameStarted)

\* the match has started out of a ready check, and a later startReadyCheck
\* was turned down
C38_Witness ==
  /\ gameState.isGameStarted
  /\ ~gameState.isReadyCheckActive
  /\ reply.type = "START_READY_CHECK"
  /\ reply.error # ""

(***************************************************************************)
(* C39.  Whenever a step leaves isRoundEndModalOpen true, roundWinners     *)
(* holds a non-empty winner set for currentRound and roundEndTriggered is  *)
(* true; and a step that starts and ends with the modal open (any          *)
(* toggleActivePlayer, with or without the Draw procedure, and any phase   *)
(* operation among them) records no round end and leaves roundWinners,     *)
(* gameWinner and currentRound as they were.                               *)
(***************************************************************************)
C39_ModalOpenMeansRoundEnded ==
  [][/\ gameState'.isRoundEndModalOpen =>
          /\ gameState'.currentRound \in DOMAIN gameState'.roundWinners
          /\ WinnerSet(gameState', gameState'.currentRound) # {}
          /\ gameState'.roundEndTriggered
     /\ (gameState.isRoundEndModalOpen /\ gameState'.isRoundEndModalOpen) =>
          /\ ~RoundEndStep
          /\ gameState'.roundWinners = gameState.roundWinners
          /\ gameState'.gameWinner = gameState.gameWinner
          /\ gameState'.currentRound = gameState.currentRound]_vars

\* with the modal open the scores moved on and the starting player was
\* selected again in Setup with the threshold reached: the record stands
C39_Witness ==
  /\ gameState.isRoundEndModalOpen
  /\ gameState.gameWinner = Null
  /\ Accepted("TOGGLE_ACTIVE_PLAYER")
  /\ gameState.currentPhase = 0
  /\ gameState.activePlayerId = gameState.startingPlayerId
  /\ SomeScoreAtLeast(gameState, 10 + 10 * gameState.currentRound)
  /\ TopScorers(gameState) # WinnerSet(gameState, gameState.currentRound)

(***************************************************************************)
(* C37.  Cards are conserved per player.  Before and after every step the  *)
(* hand of a player followed by the deck is the sequence of cards the      *)
(* player was created with, and every step (match start, selecting and     *)
(* deselecting a player with the Draw procedure, auto-draw switch, phase   *)
(* and round operations) leaves each player's hand and deck as they were   *)
(* or moves some cards from the front of the deck to the end of the same   *)
(* player's hand, in their order; no card is duplicated, dropped or passed *)
(* to another player.                                                      *)
(***************************************************************************)
\* the cards player id was created with
OwnCards(id) == [k \in 1..MaxCardDeck |-> id * 100 + k]

\* player i moved the first n cards of the deck to the end of the hand
MovedFromFront(i, n) ==
  LET before == gameState.players[i]
      after  == gameState'.players[i]
  IN /\ after.hand = before.hand \o SubSeq(before.deck, 1, n)
     /\ after.deck = SubSeq(before.deck, n + 1, Len(before.deck))

\* in this state the hand of every player followed by the deck is the
\* sequence of cards the player was created with
AllCardsInPlace(gs) ==
  \A i \in PlayerIndex(gs.players) :
    gs.players[i].hand \o gs.players[i].deck = OwnCards(gs.players[i].id)

C37_CardsConserved ==
  [][/\ AllCardsInPlace(gameState)
     /\ AllCardsInPlace(gameState')
     /\ Len(gameState'.players) = Len(gameState.players)
     /\ \A i \in PlayerIndex(gameState.players) :
          /\ gameState'.players[i].id = gameState.players[i].id
          /\ LET n == Len(gameState'.players[i].hand)
                        - Len(gameState.players[i].hand)
             IN n \in 0..Len(gameState.players[i].deck)
                  /\ MovedFromFront(i, n)]_vars

\* in round 2 of a started match one player holds both cards in the order
\* of the deck and another player holds one card with one left in the deck
C37_Witness ==
  /\ Accepted("START_NEXT_ROUND")
  /\ gameState.currentRound = 2
  /\ \E i, j \in PlayerIndex(gameState.players) :
       /\ gameState.players[i].deck = <<>>
       /\ Len(gameState.players[i].hand) = MaxCardDeck
       /\ Len(gameState.players[j].hand) = 1
       /\ Len(gameState.players[j].deck) = MaxCardDeck - 1

(***************************************************************************)
(* C40.  toggleAutoAbilities and toggleAutoDraw reject an enabled value    *)
(* that is not a boolean, and toggleAutoDraw rejects an unknown player id, *)
(* with an ERROR and the state unchanged.  On valid input                  *)
(* toggleAutoAbilities changes autoAbilitiesEnabled to the value and       *)
(* nothing else, and toggleAutoDraw changes the autoDrawEnabled of the     *)
(* named player to the value and nothing else: no card is drawn, the phase *)
(* stays, and no round end is recorded.                                    *)
(***************************************************************************)
\* the fields of the game state other than those named keep their values
OnlyFieldsChanged(fields) ==
  \A f \in DOMAIN gameState \ fields : gameState'[f] = gameState[f]

\* the players keep everything except player i's autoDrawEnabled
OnlyAutoDrawChanged(i) ==
  /\ Len(gameState'.players) = Len(gameState.players)
  /\ \A j \in PlayerIndex(gameState.players) :
       \A f \in DOMAIN gameState.players[j] :
         (j # i \/ f # "autoDrawEnabled") =>
           gameState'.players[j][f] = gameState.players[j][f]

C40_SettingsToggles ==
  [][/\ reply'.type = "TOGGLE_AUTO_ABILITIES" =>
          IF reply'.payload[1] \in {Bool(TRUE), Bool(FALSE)}
          THEN /\ reply'.error = ""
               /\ gameState'.autoAbilitiesEnabled = reply'.payload[1]
               /\ OnlyFieldsChanged({"autoAbilitiesEnabled"})
          ELSE reply'.error # "" /\ gameState' = gameState
     /\ reply'.type = "TOGGLE_AUTO_DRAW" =>
          LET named == {i \in PlayerIndex(gameState.players) :
                          Num(gameState.players[i].id) = reply'.payload[1]}
          IN IF reply'.payload[2] \in {Bool(TRUE), Bool(FALSE)} /\ named # {}
             THEN /\ reply'.error = ""
                  /\ OnlyFieldsChanged({"players"})
                  /\ \A i \in named :
                       /\ gameState'.players[i].autoDrawEnabled
                            = reply'.payload[2]
                       /\ OnlyAutoDrawChanged(i)
             ELSE reply'.error # "" /\ gameState' = gameState]_vars

\* auto-abilities are off, and auto-draw was just switched on for the active
\* starting player in Setup, who has a card in the deck and none in hand,
\* with the round's threshold reached and the modal closed
C40_Witness ==
  /\ gameState.isGameStarted
  /\ gameState.autoAbilitiesEnabled = Bool(FALSE)
  /\ Accepted("TOGGLE_AUTO_DRAW")
  /\ reply.payload[1] = gameState.activePlayerId
  /\ reply.payload[2] = Bool(TRUE)
  /\ gameState.activePlayerId = gameState.startingPlayerId
  /\ gameState.currentPhase = 0
  /\ ~gameState.isRoundEndModalOpen
  /\ SomeScoreAtLeast(gameState, 10 + 10 * gameState.currentRound)
  /\ \E i \in PlayerIndex(gameState.players) :
       /\ Num(gameState.players[i].id) = gameState.activePlayerId
       /\ gameState.players[i].deck # <<>>
       /\ gameState.players[i].hand = <<>>

====
